---- MODULE Spec2Model ----
(***************************************************************************)
(* Model of the 3DS importer (code/3DSLoader.cpp): the chunk reader, the   *)
(* recursive-descent chunk dispatcher, the scene-graph builder, and the    *)
(* mesh / material / texture handlers.                                     *)
(*                                                                         *)
(* Conventions.                                                            *)
(*  - Pointers into the file buffer are byte offsets from mBuffer; mLast   *)
(*    is offset fileSize.  A pointer that leaves the buffer is undefined   *)
(*    behaviour; the builds differ in what they make of it.  With 64-bit   *)
(*    pointers, pointer + uint32_t is the plain sum.  With 32-bit pointers *)
(*    (narrow) the sum wraps around at 2^32.  The sizes of 2^31 and more   *)
(*    that the input files of the model declare lie within 2^24 of 2^32,   *)
(*    so the sum wraps wherever above 16 MB the buffer lies.               *)
(*  - Each container function (ParseXxxChunk) is tail-recursive in the     *)
(*    source; one action models one pass through its body: BEGIN_CHUNK,    *)
(*    the switch, VALIDATE_CHUNK_SIZE, END_CHUNK, and, when END_CHUNK      *)
(*    returns, the END_CHUNK of every caller that thereby resumes.         *)
(*  - A read outside [0, fileSize) is undefined behaviour: the run either  *)
(*    crashes or goes on with the byte `junk` that happens to lie there.   *)
(*  - Floating point values are kept as their 32 raw bits; arithmetic on   *)
(*    them is kept as a symbolic term.                                     *)
(***************************************************************************)
EXTENDS Integers, Sequences, FiniteSets, TLC

\* ------------------------------------------------------------------ bounds
\* a fuzzed byte takes a value in 0..MaxMutVal (or 255)
MaxMutVal == 2
\* the last 0..MaxTrunc bytes of a file may be cut off
MaxTrunc == 2
\* a decode is followed for at most MaxPasses passes through container functions
\* (a chunk of declared size 0 is handled again and again)
MaxPasses == 24

\* ------------------------------------------------------- chunk identifiers
HeaderSize == 6
MinFileSize == 16
CHUNK_RGBF == 16
CHUNK_RGBB == 17
CHUNK_LINRGBB == 18
CHUNK_LINRGBF == 19
CHUNK_PERCENTW == 48
CHUNK_PERCENTF == 49
CHUNK_VERSION == 2
CHUNK_MASTER_SCALE == 256
CHUNK_BIT_MAP == 4352
CHUNK_BIT_MAP_EXISTS == 4353
CHUNK_AMBCOLOR == 8448
CHUNK_MAIN == 19789
CHUNK_OBJMESH == 15677
CHUNK_OBJBLOCK == 16384
CHUNK_TRIMESH == 16640
CHUNK_VERTLIST == 16656
CHUNK_FACELIST == 16672
CHUNK_FACEMAT == 16688
CHUNK_MAPLIST == 16704
CHUNK_SMOOLIST == 16720
CHUNK_TRMATRIX == 16736
CHUNK_MAT_MATERIAL == 45055
CHUNK_MAT_MATNAME == 40960
CHUNK_MAT_AMBIENT == 40976
CHUNK_MAT_DIFFUSE == 40992
CHUNK_MAT_SPECULAR == 41008
CHUNK_MAT_SHININESS == 41024
CHUNK_MAT_SHININESS_PERCENT == 41025
CHUNK_MAT_TRANSPARENCY == 41040
CHUNK_MAT_SELF_ILLUM == 41088
CHUNK_MAT_TWO_SIDE == 41089
CHUNK_MAT_SELF_ILPCT == 41092
CHUNK_MAT_SHADING == 41216
CHUNK_MAT_TEXTURE == 41472
CHUNK_MAT_SPECMAP == 41476
CHUNK_MAT_OPACMAP == 41488
CHUNK_MAT_BUMPMAP == 41520
CHUNK_MAT_MAT_SHINMAP == 41788
CHUNK_MAT_SELFIMAP == 41789
CHUNK_MAPFILE == 41728
CHUNK_MAT_MAP_TILING == 41809
CHUNK_MAT_MAP_USCALE == 41812
CHUNK_MAT_MAP_VSCALE == 41814
CHUNK_MAT_MAP_UOFFSET == 41816
CHUNK_MAT_MAP_VOFFSET == 41818
CHUNK_MAT_MAP_ANG == 41820
CHUNK_KEYFRAMER == 45056
CHUNK_TRACKINFO == 45058
CHUNK_TRACKOBJNAME == 45072
CHUNK_TRACKPIVOT == 45075
CHUNK_TRACKPOS == 45088
CHUNK_TRACKROTATE == 45089
CHUNK_TRACKSCALE == 45090
\* marks a face no material was assigned to (0xcdcdcdcd)
DefaultMaterialIndex == -842150451
\* "material not found" while searching (0xFFFFFFFF)
NotFoundIndex == -1

\* ------------------------------------------------------------ arithmetic
\* The model checker's integers are 32 bits wide, so a 32-bit unsigned value is
\* kept in one of two ways.  A bit pattern that is only stored or compared for
\* equality (float bits, smoothing groups, material indices) is kept as the
\* signed value of the same 32 bits.  So is a chunk size: a size of 2^31 or
\* more is a negative number, the amount by which a narrow pointer moves back
\* when the size is added to it.  HugeSize stands for a distance near 2^32 that
\* a wide pointer moves forward.
HugeSize == 1024 * 1024 * 1024

\* a - b in 32 bits (int, unsigned int), as the signed value of the result
Sub32(a, b) ==
  LET lo == (a % 65536) - (b % 65536)
      hi == (a \div 65536) - (b \div 65536) - (IF lo < 0 THEN 1 ELSE 0)
  IN (((hi + 32768) % 65536) - 32768) * 65536 + (lo % 65536)

\* uint16_t wrap-around
UInt16(v) == v % 65536

\* conversion of a uint16_t to short
Int16(v) ==
  LET m == v % 65536 IN IF m >= 32768 THEN m - 65536 ELSE m

Range(o, n) == o .. (o + n - 1)

\* ----------------------------------------------------- building input files
Le16(v) == << v % 256, (v \div 256) % 256 >>

Le32(v) ==
  << v % 256, (v \div 256) % 256, (v \div 65536) % 256, (v \div 16777216) % 256 >>

\* a chunk: 16-bit tag, 32-bit total size (header included), payload
Chunk(tag, body) == Le16(tag) \o Le32(HeaderSize + Len(body)) \o body

\* ------------------------------------------------------------------ state
VARIABLES
  mBuffer,          \* the file contents (std::vector mBuffer2), a sequence of bytes
  fileSize,         \* file->FileSize(); mLast is offset fileSize
  junk,             \* the byte found by a read outside the buffer that does not crash
  debugBuild,       \* whether _DEBUG is defined (ASSIMP_3DS_VALIDATE_CHUNK_SIZE)
  keyframeAnimation, \* whether AI_3DS_KEYFRAME_ANIMATION is defined (the track chunks)
  narrow,           \* whether pointers are 32 bits wide
  status,           \* "idle", "parsing", "parsed", "done", "error", "crashed", "hung"
  errMsg,           \* text of the ImportErrorException thrown, "" if none
  mCurrent,         \* read cursor (offset)
  stack,            \* call stack of the container functions, innermost last
  mScene,           \* Dot3DS::Scene: created flag, mMeshes, mMaterials
  mClrAmbient,      \* ambient base colour of the scene
  node,             \* all Dot3DS::Node objects, in creation order; node[1] is the root
  mCurrentNode,     \* index into node (0: null)
  mRootNode,        \* index into node (0: null)
  mLastNodeIndex,
  mMasterScale,
  mBackgroundImage,
  bHasBG,
  pScene,           \* the caller's aiScene: "empty" or "converted"
  phases,           \* post-processing steps run so far, in order
  rd,               \* offsets read from the buffer by the last step
  iter,             \* what the last pass through a container function did
  warned,           \* log messages of the last step
  passes,           \* number of passes through container functions in this decode
  decodes           \* number of calls of InternReadFile on this instance so far

vars == << mBuffer, fileSize, junk, debugBuild, keyframeAnimation, narrow, status, errMsg, mCurrent, stack,
           mScene, mClrAmbient, node, mCurrentNode, mRootNode, mLastNodeIndex,
           mMasterScale, mBackgroundImage, bHasBG, pScene, phases, rd, iter, warned,
           passes, decodes >>

\* memory within Slack bytes of the buffer is mapped (a read there yields junk);
\* an access further away always crashes
Slack == 4

\* ------------------------------------------------------------ raw reading
InBuffer(o) == o >= 0 /\ o < fileSize

Peek(o) == IF InBuffer(o) THEN mBuffer[o + 1] ELSE junk

U16(o) == Peek(o) + 256 * Peek(o + 1)

\* the 32 bits at o, as a signed value
Word32(o) ==
  Peek(o) + 256 * Peek(o + 1) + 65536 * Peek(o + 2)
    + 16777216 * (IF Peek(o + 3) >= 128 THEN Peek(o + 3) - 256 ELSE Peek(o + 3))

\* *((short*)p)
S16(o) == Int16(U16(o))

Bytes(o, n) == [i \in 1 .. n |-> Peek(o + i - 1)]

\* The decoder's working memory during one step: the members a handler may
\* change, plus what the step read (rd), whether it ran into undefined
\* behaviour (ub), whether it touched unmapped memory (far), the exception it
\* threw (err), its log output (warn) and the container function it calls (call).
NoCall == [fn |-> "", piRemaining |-> 0, pcOut |-> ""]

Mem ==
  [ mCurrent |-> mCurrent, rd |-> {}, ub |-> FALSE, far |-> FALSE, hang |-> FALSE,
    err |-> "", warn |-> {}, call |-> NoCall, hdrs |-> {}, listed |-> {},
    mScene |-> mScene, mClrAmbient |-> mClrAmbient, node |-> node,
    mCurrentNode |-> mCurrentNode, mLastNodeIndex |-> mLastNodeIndex,
    mMasterScale |-> mMasterScale, mBackgroundImage |-> mBackgroundImage,
    bHasBG |-> bHasBG ]

\* the n bytes at offset o are read
Touch(m, o, n) ==
  [m EXCEPT !.rd = @ \cup Range(o, n),
            !.ub = @ \/ (\E x \in Range(o, n) : ~InBuffer(x)),
            !.far = @ \/ (\E x \in Range(o, n) : x < 0 - Slack \/ x >= fileSize + Slack)]

Throw(m, msg) == [m EXCEPT !.err = msg]

Warn(m, msg) == [m EXCEPT !.warn = @ \cup {msg}]

Undefined(m) == [m EXCEPT !.ub = TRUE]

\* the step never ends
Hang(m) == [m EXCEPT !.hang = TRUE]

Advance(m, n) == [m EXCEPT !.mCurrent = @ + n]

\* --------------------------------------------------------- float values
\* A float is kept as a term: its raw bits as read from the file ("bits"), the
\* not-a-number sentinel ("qnan"), an integer divided by a constant ("div255",
\* "div100", "div65535"), or an operation applied to another term.
FBits(v) == [op |-> "bits", a |-> v, of |-> << >>]

FQuietNaN == [op |-> "qnan", a |-> 0, of |-> << >>]

FRatio(name, v) == [op |-> name, a |-> v, of |-> << >>]

FApply(name, t) == [op |-> name, a |-> 0, of |-> << t >>]

\* bit patterns of 0.0f and 1.0f
FloatZero == 0
FloatOne == 1065353216

\* *((float*)p)
F32(o) == FBits(Word32(o))

\* is_qnan (qnan.h): exponent all ones, fraction not zero
is_qnan(t) ==
  \/ t.op = "qnan"
  \/ /\ t.op = "bits"
     /\ (t.a \div 8388608) % 256 = 255
     /\ t.a % 8388608 # 0

\* f == 0.0f for a float read from the file: +0.0 (all bits clear) or -0.0
\* (only the sign bit set)
MinusZeroBits == -2147483647 - 1

IsZeroFloat(t) == t.op = "bits" /\ (t.a = 0 \/ t.a = MinusZeroBits)

aiColor3D(r, g, b) == [r |-> r, g |-> g, b |-> b]

\* ------------------------------------------------------------ ReadChunk
\* The chunk pointer handed out: null, or the offset of a header.
NullChunk == [null |-> TRUE, at |-> 0]

ChunkAt(o) == [null |-> FALSE, at |-> o]

\* psChunk->Size and psChunk->Flag.  Through a null pointer the fields are
\* whatever lies at address 2 and 0.
ChunkSize(p) ==
  IF p.null THEN junk * 16843009 ELSE Word32(p.at + 2)

ChunkFlag(p) ==
  IF p.null THEN junk * 257 ELSE U16(p.at)

\* the step dereferences chunk pointer p
Deref(m, p) ==
  IF p.null THEN Undefined(m) ELSE Touch(m, p.at, HeaderSize)

\* (**p_ppcOut).Size + this->mCurrent > this->mLast, the cursor at cur
PastLast(size, cur) ==
  IF size < 0 THEN ~narrow ELSE size > fileSize - cur

\* a variant of ReadChunk that throws whenever less than a header remains
ReadChunk_Strict(m) ==
  IF fileSize - m.mCurrent < HeaderSize
    THEN [m |-> Throw(m, "Unexpected end of file, can't read chunk header"),
          p |-> NullChunk]
    ELSE LET p == ChunkAt(m.mCurrent)
             m1 == [Touch(m, p.at + 2, 4) EXCEPT
                      !.hdrs = @ \cup {[at |-> p.at, Size |-> ChunkSize(p)]}]
         IN IF PastLast(ChunkSize(p), m.mCurrent)
              THEN [m |-> Throw(m1, "Unexpected end of file, can't read chunk footer"),
                    p |-> p]
              ELSE [m |-> Advance(m1, HeaderSize), p |-> p]

\* Dot3DSImporter::ReadChunk: [m: memory afterwards, p: *p_ppcOut]; hdrs
\* keeps the headers whose size it looked at
ReadChunk(m) ==
  IF m.mCurrent >= fileSize
    THEN [m |-> Throw(m, "Unexpected end of file, can't read chunk header"),
          p |-> NullChunk]
    ELSE IF fileSize - m.mCurrent < HeaderSize
      THEN [m |-> m, p |-> NullChunk]
      ELSE LET p == ChunkAt(m.mCurrent)
               m1 == [Touch(m, p.at + 2, 4) EXCEPT
                        !.hdrs = @ \cup {[at |-> p.at, Size |-> ChunkSize(p)]}]
           IN IF PastLast(ChunkSize(p), m.mCurrent)
                THEN [m |-> Throw(m1, "Unexpected end of file, can't read chunk footer"),
                      p |-> p]
                ELSE [m |-> Advance(m1, HeaderSize), p |-> p]

\* ------------------------------------------------------------- strings
\* while (*sz++ != '\0') { if (sz > pcCurNext-1) break; ++iCnt; }
\* [sz, iCnt, m]: the pointer after the loop, the count, the memory (reads)
RECURSIVE ScanName(_, _, _, _)
ScanName(m, sz, iCnt, pcCurNext) ==
  LET m1 == Touch(m, sz, 1)
  IN IF Peek(sz) = 0 \/ sz + 1 > pcCurNext - 1 \/ m1.far
       THEN [sz |-> sz + 1, iCnt |-> iCnt, m |-> m1]
       ELSE ScanName(m1, sz + 1, iCnt + 1, pcCurNext)

\* strlen of the C string at o, as std::string(const char*) computes it; the
\* scan stops where memory is not mapped (the run has crashed by then)
RECURSIVE CStrLen(_, _)
CStrLen(o, n) ==
  IF Peek(o + n) = 0 \/ o + n >= fileSize + Slack \/ o + n < 0 - Slack
    THEN n
    ELSE CStrLen(o, n + 1)

\* std::string((const char*)p): [s: the string, m: the memory (reads)]
CString(m, o) ==
  LET n == CStrLen(o, 0)
  IN [s |-> Bytes(o, n), m |-> Touch(m, o, n + 1)]

\* tolower
ToLower(c) == IF c >= 65 /\ c <= 90 THEN c + 32 ELSE c

\* ASSIMP_stricmp(s1 at offset o in the buffer, s2 a std::string): position
\* of the first difference (or of the common terminator), counted from 0
RECURSIVE StricmpStop(_, _, _)
StricmpStop(o, name, i) ==
  LET c1 == ToLower(Peek(o + i))
      c2 == IF i < Len(name) THEN ToLower(name[i + 1]) ELSE 0
  IN IF c1 # c2 \/ c1 = 0 \/ o + i >= fileSize + Slack
       THEN i
       ELSE StricmpStop(o, name, i + 1)

\* [eq: whether the strings are equal ignoring case, m: the memory (reads)]
ASSIMP_stricmp(m, o, name) ==
  LET i == StricmpStop(o, name, 0)
      c2 == IF i < Len(name) THEN ToLower(name[i + 1]) ELSE 0
  IN [eq |-> ToLower(Peek(o + i)) = c2, m |-> Touch(m, o, i + 1)]

\* ------------------------------------------- percentage and colour lookups
\* n > size for the uint32_t size
UGreater(n, size) == size >= 0 /\ n > size

\* Dot3DSImporter::ParsePercentageChunk after ReadChunk gave r
PercentageOf(r) ==
  IF r.m.err # "" \/ r.p.null
    THEN [m |-> r.m, v |-> FQuietNaN]
    ELSE LET m2 == Deref(r.m, r.p)
         IN IF ChunkFlag(r.p) = CHUNK_PERCENTF
              THEN IF UGreater(4, ChunkSize(r.p))
                     THEN [m |-> m2, v |-> FQuietNaN]
                     ELSE [m |-> Touch(m2, r.m.mCurrent, 4), v |-> F32(r.m.mCurrent)]
              ELSE IF ChunkFlag(r.p) = CHUNK_PERCENTW
                THEN IF UGreater(2, ChunkSize(r.p))
                       THEN [m |-> m2, v |-> FQuietNaN]
                       ELSE [m |-> Touch(m2, r.m.mCurrent, 2),
                             v |-> FRatio("div65535", S16(r.m.mCurrent))]
                ELSE [m |-> Advance(m2, ChunkSize(r.p) - HeaderSize), v |-> FQuietNaN]

\* Dot3DSImporter::ParsePercentageChunk: [m: memory afterwards, v: the float]
ParsePercentageChunk(m) == PercentageOf(ReadChunk(m))

\* const unsigned int diff = psChunk->Size - sizeof(Dot3DSFile::Chunk), as
\* the comparisons see it: for a size below the header size the difference
\* wraps around to nearly 2^32
UIntDiff(size) ==
  IF size >= HeaderSize THEN size - HeaderSize ELSE HugeSize

\* this->mCurrent += diff: the distance the cursor moves
ColorSkip(size) ==
  IF narrow \/ size >= HeaderSize THEN size - HeaderSize ELSE HugeSize + size

clrError == aiColor3D(FQuietNaN, FQuietNaN, FQuietNaN)

Gamma(c, bGamma) ==
  IF bGamma
    THEN aiColor3D(FApply("powf(x,1/2.2)", c.r), FApply("powf(x,1/2.2)", c.g),
                   FApply("powf(x,1/2.2)", c.b))
    ELSE c

\* the switch of ParseColorChunk, but for its default case: m3 the memory
\* after mCurrent += diff, pcCur the payload, flag the tag:
\* [m: memory afterwards, c: *p_pcOut]
ColorCase(m3, pcCur, diff, flag, p_bAcceptPercent) ==
  IF flag = CHUNK_LINRGBF \/ flag = CHUNK_RGBF
    THEN IF 12 > diff
           THEN [m |-> m3, c |-> clrError]
           ELSE [m |-> Touch(m3, pcCur, 12),
                 c |-> Gamma(aiColor3D(F32(pcCur), F32(pcCur + 4), F32(pcCur + 8)),
                             flag = CHUNK_LINRGBF)]
  ELSE IF flag = CHUNK_LINRGBB \/ flag = CHUNK_RGBB
    THEN IF 3 > diff
           THEN [m |-> m3, c |-> clrError]
           ELSE [m |-> Touch(m3, pcCur, 3),
                 c |-> Gamma(aiColor3D(FRatio("div255", Peek(pcCur)),
                                       FRatio("div255", Peek(pcCur + 1)),
                                       FRatio("div255", Peek(pcCur + 2))),
                             flag = CHUNK_LINRGBB)]
  ELSE IF flag = CHUNK_PERCENTF
    THEN IF p_bAcceptPercent /\ 4 <= diff
           THEN [m |-> Touch(m3, pcCur, 4),
                 c |-> aiColor3D(F32(pcCur), F32(pcCur), F32(pcCur))]
           ELSE [m |-> m3, c |-> clrError]
  ELSE \* CHUNK_PERCENTW
       IF p_bAcceptPercent /\ 1 <= diff
         THEN [m |-> Touch(m3, pcCur, 1),
               c |-> aiColor3D(FRatio("div255", Peek(pcCur)),
                               FRatio("div255", Peek(pcCur)),
                               FRatio("div255", Peek(pcCur)))]
         ELSE [m |-> m3, c |-> clrError]

ColorTags == {CHUNK_LINRGBF, CHUNK_RGBF, CHUNK_LINRGBB, CHUNK_RGBB, CHUNK_PERCENTF,
              CHUNK_PERCENTW}

\* Dot3DSImporter::ParseColorChunk with the cursor of m at a header; seen: where
\* the calls so far found headers of unknown chunks.  The call never returns
\* when it comes to one of them again.
RECURSIVE ColorFrom(_, _, _)

\* Dot3DSImporter::ParseColorChunk after ReadChunk gave r for the header at
\* offset at
ColorOf(r, at, p_bAcceptPercent, seen) ==
  IF r.m.err # "" \/ r.p.null
    THEN [m |-> r.m, c |-> clrError]
    ELSE IF ChunkFlag(r.p) \in ColorTags
      THEN ColorCase(Advance(Deref(r.m, r.p), ColorSkip(ChunkSize(r.p))), r.m.mCurrent,
                     UIntDiff(ChunkSize(r.p)), ChunkFlag(r.p), p_bAcceptPercent)
      ELSE \* default: skip unknown chunks, hope this won't cause any problems
           IF r.m.far
             THEN [m |-> r.m, c |-> clrError]
             ELSE ColorFrom(Advance(Deref(r.m, r.p), ColorSkip(ChunkSize(r.p))),
                            p_bAcceptPercent, seen \cup {at})

ColorFrom(m, p_bAcceptPercent, seen) ==
  IF m.mCurrent \in seen
    THEN [m |-> Hang(m), c |-> clrError]
    ELSE ColorOf(ReadChunk(m), m.mCurrent, p_bAcceptPercent, seen)

\* Dot3DSImporter::ParseColorChunk: [m: memory afterwards, c: *p_pcOut]
ParseColorChunk(m, p_bAcceptPercent) == ColorFrom(m, p_bAcceptPercent, {})

\* ------------------------------------------------------- scene structures
aiVector3D(x, y, z) == [x |-> x, y |-> y, z |-> z]

\* a value the constructors of 3DSHelper.h set and this file never reads
FDefault == [op |-> "default", a |-> 0, of |-> << >>]

\* aiMatrix4x4(): the identity, as the twelve floats a1 b1 c1 a2 b2 c2 a3 ...
IdentityMatrix ==
  << FloatOne, FloatZero, FloatZero, FloatZero, FloatOne, FloatZero,
     FloatZero, FloatZero, FloatOne, FloatZero, FloatZero, FloatZero >>

\* Dot3DS::Mesh().  Two fields keep, for the properties, what the face material
\* lists of the mesh said: listed, the indices of the faces they named, and
\* clamped, the faces that were the last one when a list held an index past
\* the end.
NewMesh ==
  [ mName |-> << >>, mPositions |-> << >>, mTexCoords |-> << >>, mFaces |-> << >>,
    mFaceMaterials |-> << >>, mMat |-> IdentityMatrix, listed |-> {}, clamped |-> {} ]

\* Dot3DS::Texture()
NewTexture ==
  [ mMapName |-> << >>, mTextureBlend |-> FDefault, mScaleU |-> FBits(FloatOne),
    mScaleV |-> FBits(FloatOne), mOffsetU |-> FBits(FloatZero),
    mOffsetV |-> FBits(FloatZero), mRotation |-> FBits(FloatZero),
    mMapMode |-> "aiTextureMapMode_Wrap" ]

\* Dot3DS::Material(): the k-th material built gets a generated name that no
\* name read from a file of the model equals
NewMaterial(k) ==
  [ mName |-> << 36, 36, k >>,
    mDiffuse |-> aiColor3D(FDefault, FDefault, FDefault),
    mSpecular |-> aiColor3D(FDefault, FDefault, FDefault),
    mAmbient |-> aiColor3D(FDefault, FDefault, FDefault),
    mEmissive |-> aiColor3D(FDefault, FDefault, FDefault),
    mTransparency |-> FDefault, mShading |-> -1, mTwoSided |-> FALSE,
    mSpecularExponent |-> FDefault, mShininessStrength |-> FDefault,
    sTexDiffuse |-> NewTexture, sTexBump |-> NewTexture, sTexOpacity |-> NewTexture,
    sTexShininess |-> NewTexture, sTexSpecular |-> NewTexture,
    sTexEmissive |-> NewTexture ]

\* Dot3DS::Node(); mParent 0 is the null pointer
NewNode ==
  [ mName |-> << >>, mHierarchyPos |-> 0, mHierarchyIndex |-> 0, mParent |-> 0,
    mChildren |-> << >>, vPivot |-> aiVector3D(FBits(FloatZero), FBits(FloatZero), FBits(FloatZero)),
    aPositionKeys |-> << >>, aRotationKeys |-> << >>, aScalingKeys |-> << >>,
    arrived |-> << >> ]

\* no Dot3DS::Scene object yet
NoScene == [created |-> FALSE, mMeshes |-> << >>, mMaterials |-> << >>]

\* new Dot3DS::Scene()
NewScene == [created |-> TRUE, mMeshes |-> << >>, mMaterials |-> << >>]

\* Node::push_back: nodes with node c appended to the children of node par
push_back(nodes, par, c) ==
  [nodes EXCEPT ![par].mChildren = Append(@, c), ![c].mParent = par]

SetBack(seq, x) == [seq EXCEPT ![Len(seq)] = x]

Back(seq) == seq[Len(seq)]

\* ------------------------------------------------- the container functions
\* Each XxxCase(m, h) is the switch of the container function: m is the memory
\* after BEGIN_CHUNK, h the chunk found: [Flag, Size, pcCur, pcCurNext].
\* The result is the memory at the end of the switch; a call of another
\* container function is left in its field call.
Call(m, fn, iRemaining, pcOut) ==
  [m EXCEPT !.call = [fn |-> fn, piRemaining |-> iRemaining, pcOut |-> pcOut]]

\* int iRemaining = (psChunk->Size - sizeof(Dot3DSFile::Chunk))
PayloadSize(h) == Sub32(h.Size, HeaderSize)

\* Dot3DSImporter::ParseMainChunk
MainCase(m, h) ==
  IF h.Flag = CHUNK_MAIN THEN Call(m, "ParseEditorChunk", PayloadSize(h), "") ELSE m

\* Dot3DSImporter::ParseEditorChunk
EditorCase(m, h) ==
  IF h.Flag = CHUNK_OBJMESH
    THEN Call(m, "ParseObjectChunk", PayloadSize(h), "")
  ELSE IF h.Flag = CHUNK_KEYFRAMER
    THEN Call(m, "ParseKeyframeChunk", PayloadSize(h), "")
  ELSE IF h.Flag = CHUNK_VERSION
    THEN IF ~UGreater(2 + HeaderSize, h.Size)
           THEN Touch(m, m.mCurrent, 2)
           ELSE Warn(m, "Invalid version chunk in 3DS file")
  ELSE m

\* case CHUNK_OBJBLOCK of ParseObjectChunk
ObjBlock(m, h) ==
  LET sc == ScanName(m, m.mCurrent, 0, h.pcCurNext)
      mesh == [NewMesh EXCEPT !.mName = Bytes(m.mCurrent, sc.iCnt)]
      m1 == [sc.m EXCEPT !.mScene.mMeshes = Append(@, mesh)]
      iCnt == sc.iCnt + 1
  IN Call(Advance(m1, iCnt), "ParseChunk", Sub32(PayloadSize(h), iCnt), "")

\* case CHUNK_AMBCOLOR of ParseObjectChunk, ParseColorChunk having given r
AmbColorOf(r) ==
  IF r.m.err # "" \/ r.m.hang
    THEN r.m
    ELSE [r.m EXCEPT !.mClrAmbient =
            IF is_qnan(r.c.r)
              THEN aiColor3D(FBits(FloatZero), FBits(FloatZero), FBits(FloatZero))
              ELSE r.c]

\* case CHUNK_AMBCOLOR of ParseObjectChunk
AmbColor(m) == AmbColorOf(ParseColorChunk(m, TRUE))

\* Dot3DSImporter::ParseObjectChunk
ObjectCase(m, h) ==
  IF h.Flag = CHUNK_OBJBLOCK
    THEN ObjBlock(m, h)
  ELSE IF h.Flag = CHUNK_MAT_MATERIAL
    THEN Call([m EXCEPT !.mScene.mMaterials = Append(@, NewMaterial(Len(@)))],
              "ParseMaterialChunk", PayloadSize(h), "")
  ELSE IF h.Flag = CHUNK_AMBCOLOR
    THEN AmbColor(m)
  ELSE IF h.Flag = CHUNK_BIT_MAP
    THEN LET cs == CString(m, m.mCurrent)
         IN [cs.m EXCEPT !.mBackgroundImage = cs.s]
  ELSE IF h.Flag = CHUNK_BIT_MAP_EXISTS
    THEN [m EXCEPT !.bHasBG = TRUE]
  ELSE IF h.Flag = CHUNK_MASTER_SCALE
    THEN Advance([Touch(m, m.mCurrent, 4) EXCEPT !.mMasterScale = F32(m.mCurrent)], 4)
  ELSE IF h.Flag = CHUNK_KEYFRAMER
    THEN Call(m, "ParseKeyframeChunk", PayloadSize(h), "")
  ELSE m

\* Dot3DSImporter::ParseChunk
ChunkCase(m, h) ==
  IF h.Flag = CHUNK_TRIMESH THEN Call(m, "ParseMeshChunk", PayloadSize(h), "") ELSE m

\* Dot3DSImporter::ParseKeyframeChunk
KeyframeCase(m, h) ==
  IF h.Flag = CHUNK_TRACKINFO THEN Call(m, "ParseHierarchyChunk", PayloadSize(h), "") ELSE m

\* ------------------------------------------------------ scene graph builder
\* a variant of InverseNodeSearch that attaches pcNode to the root and to the
\* node the search starts from
InverseNodeSearch_Both(nodes, root, pcNode, pcCurrent) ==
  push_back(push_back(nodes, root, pcNode), pcCurrent, pcNode)

\* Dot3DSImporter::InverseNodeSearch: the nodes with pcNode attached
RECURSIVE InverseNodeSearch(_, _, _, _)
InverseNodeSearch(nodes, root, pcNode, pcCurrent) ==
  IF pcCurrent = 0
    THEN push_back(nodes, root, pcNode)
    ELSE IF nodes[pcCurrent].mHierarchyPos = nodes[pcNode].mHierarchyPos
      THEN IF nodes[pcCurrent].mParent # 0
             THEN push_back(nodes, nodes[pcCurrent].mParent, pcNode)
             ELSE push_back(nodes, pcCurrent, pcNode)
      ELSE InverseNodeSearch(nodes, root, pcNode, nodes[pcCurrent].mParent)

\* a variant of AttachNode without the first branch
AttachNode_NoSibling(m, pcNode, iHierarchy) ==
  IF iHierarchy >= m.mLastNodeIndex
    THEN [m EXCEPT !.node = push_back(@, m.mCurrentNode, pcNode),
                   !.mLastNodeIndex = iHierarchy]
    ELSE [m EXCEPT !.node = InverseNodeSearch(@, mRootNode, pcNode, m.mCurrentNode),
                   !.mLastNodeIndex = @ + 1]

\* The three branches of case CHUNK_TRACKOBJNAME that attach node pcNode, whose
\* level word, incremented, is iHierarchy.
AttachNode(m, pcNode, iHierarchy) ==
  IF m.mCurrentNode # 0 /\ m.node[m.mCurrentNode].mHierarchyPos = iHierarchy
    THEN \* add to the parent of the last touched node
         IF m.node[m.mCurrentNode].mParent = 0
           THEN Undefined(m)
           ELSE [m EXCEPT !.node = push_back(@, m.node[m.mCurrentNode].mParent, pcNode),
                          !.mLastNodeIndex = @ + 1]
    ELSE IF iHierarchy >= m.mLastNodeIndex
      THEN \* place it at the current position in the hierarchy
           IF m.mCurrentNode = 0
             THEN Undefined(m)
             ELSE [m EXCEPT !.node = push_back(@, m.mCurrentNode, pcNode),
                            !.mLastNodeIndex = iHierarchy]
      ELSE \* go back to the specified position in the hierarchy
           [m EXCEPT !.node = InverseNodeSearch(@, mRootNode, pcNode, m.mCurrentNode),
                     !.mLastNodeIndex = @ + 1]

\* case CHUNK_TRACKOBJNAME of ParseHierarchyChunk
TrackObjName(m, h) ==
  LET sc == ScanName(m, m.mCurrent, 0, h.pcCurNext)
      m1 == Advance(sc.m, sc.iCnt + 1 + 4)
      iHierarchy == UInt16(U16(m1.mCurrent) + 1)
      pcNode == Len(m.node) + 1
      n == [NewNode EXCEPT !.mName = Bytes(m.mCurrent, sc.iCnt),
                           !.mHierarchyPos = iHierarchy,
                           !.mHierarchyIndex = m.mLastNodeIndex]
      m2 == [Touch(m1, m1.mCurrent, 2) EXCEPT !.node = Append(@, n)]
      m3 == AttachNode(m2, pcNode, iHierarchy)
  IN [m3 EXCEPT !.mCurrentNode = pcNode]

\* case CHUNK_TRACKPIVOT of ParseHierarchyChunk
TrackPivot(m) ==
  LET o == m.mCurrent
      m1 == Touch(m, o, 12)
  IN IF m.mCurrentNode = 0
       THEN Undefined(m1)
       ELSE Advance([m1 EXCEPT !.node[m.mCurrentNode].vPivot =
                                  aiVector3D(F32(o), F32(o + 8), F32(o + 4))], 12)

\* a variant of ReadKeys that appends every key, whatever the track holds
RECURSIVE ReadKeys_NoCheck(_, _, _, _, _)
ReadKeys_NoCheck(m, field, width, iNum, iCnt) ==
  IF iNum = 0 \/ m.far
    THEN [m |-> m, iCnt |-> iCnt]
    ELSE LET o == m.mCurrent
             v == [mTime |-> U16(o),
                   mValue |-> [i \in 1 .. width \div 4 |-> F32(o + 6 + 4 * (i - 1))]]
             counted == /\ field = "aScalingKeys"
                        /\ \A i \in 1 .. 3 : ~IsZeroFloat(v.mValue[i])
             m1 == Advance(Touch(Touch(m, o, 2), o + 6, width), 6 + width)
             m2 == [m1 EXCEPT !.node[m.mCurrentNode] =
                      [@ EXCEPT ![field] = Append(@, v),
                                !.arrived = Append(@, [track |-> field, key |-> v])]]
         IN ReadKeys_NoCheck(m2, field, width, iNum - 1, iCnt + (IF counted THEN 1 ELSE 0))

\* for (i < iTemp) of the track cases: a key of 2 bytes frame number, 4 bytes
\* skipped and width bytes of value (three floats, for the rotation an angle
\* and three floats) is appended to track field of the current node unless
\* the track holds a key of the same frame number; iCnt counts the scaling
\* keys that pass if (v.mValue.x && v.mValue.y && v.mValue.z). arrived lists
\* the keys in the order read, and where a track was cleared.
RECURSIVE ReadKeys(_, _, _, _, _)
ReadKeys(m, field, width, iNum, iCnt) ==
  IF iNum = 0 \/ m.far
    THEN [m |-> m, iCnt |-> iCnt]
    ELSE LET o == m.mCurrent
             v == [mTime |-> U16(o),
                   mValue |-> [i \in 1 .. width \div 4 |-> F32(o + 6 + 4 * (i - 1))]]
             keys == m.node[m.mCurrentNode][field]
             known == \E i \in 1 .. Len(keys) : keys[i].mTime = v.mTime
             counted == /\ field = "aScalingKeys"
                        /\ \A i \in 1 .. 3 : ~IsZeroFloat(v.mValue[i])
             m1 == Advance(Touch(Touch(m, o, 2), o + 6, width), 6 + width)
             m2 == [m1 EXCEPT !.node[m.mCurrentNode] =
                      [@ EXCEPT ![field] = IF known THEN @ ELSE Append(@, v),
                                !.arrived = Append(@, [track |-> field, key |-> v])]]
         IN ReadKeys(m2, field, width, iNum - 1, iCnt + (IF counted THEN 1 ELSE 0))

\* case CHUNK_TRACKPOS, CHUNK_TRACKROTATE and CHUNK_TRACKSCALE of
\* ParseHierarchyChunk; the scaling track is cleared if (iTemp == iCnt)
TrackKeys(m, field, width) ==
  LET o == m.mCurrent + 10
      iTemp == U16(o)
      r == ReadKeys(Advance(Touch(m, o, 2), 14), field, width, iTemp, 0)
  IN IF m.mCurrentNode = 0
       THEN Undefined(Touch(m, o, 2))
       ELSE IF field = "aScalingKeys" /\ iTemp = r.iCnt /\ ~r.m.far
         THEN [Warn(r.m, "All scaling keys are zero. They will be removed")
                 EXCEPT !.node[m.mCurrentNode] =
                   [@ EXCEPT !.aScalingKeys = << >>,
                             !.arrived = Append(@, [track |-> "clear " \o field,
                                                    key |-> [mTime |-> 0, mValue |-> << >>]])]]
         ELSE r.m

\* Dot3DSImporter::ParseHierarchyChunk
HierarchyCase(m, h) ==
  IF h.Flag = CHUNK_TRACKOBJNAME
    THEN TrackObjName(m, h)
  ELSE IF h.Flag = CHUNK_TRACKPIVOT
    THEN TrackPivot(m)
  ELSE IF keyframeAnimation /\ h.Flag = CHUNK_TRACKPOS
    THEN TrackKeys(m, "aPositionKeys", 12)
  ELSE IF keyframeAnimation /\ h.Flag = CHUNK_TRACKROTATE
    THEN TrackKeys(m, "aRotationKeys", 16)
  ELSE IF keyframeAnimation /\ h.Flag = CHUNK_TRACKSCALE
    THEN TrackKeys(m, "aScalingKeys", 12)
  ELSE m

\* ---------------------------------------------------------- mesh geometry
\* while (iNum-- > 0) of case CHUNK_VERTLIST: y and z are swapped on read.
\* (This and the loops below stop where memory is not mapped: the run has
\* crashed by then.)
RECURSIVE ReadVertices(_, _, _)
ReadVertices(m, iNum, acc) ==
  IF iNum = 0 \/ m.far
    THEN [m |-> m, list |-> acc]
    ELSE LET o == m.mCurrent
             v == [x |-> F32(o), y |-> F32(o + 8), z |-> F32(o + 4), normalizedBy |-> << >>]
         IN ReadVertices(Advance(Touch(m, o, 12), 12), iNum - 1, Append(acc, v))

\* while (iNum-- > 0) of case CHUNK_MAPLIST
RECURSIVE ReadTexCoords(_, _, _)
ReadTexCoords(m, iNum, acc) ==
  IF iNum = 0 \/ m.far
    THEN [m |-> m, list |-> acc]
    ELSE LET o == m.mCurrent
         IN ReadTexCoords(Advance(Touch(m, o, 8), 8), iNum - 1,
                          Append(acc, [x |-> F32(o), y |-> F32(o + 4)]))

\* while (iNum-- > 0) of case CHUNK_FACELIST
RECURSIVE ReadFaces(_, _, _)
ReadFaces(m, iNum, acc) ==
  IF iNum = 0 \/ m.far
    THEN [m |-> m, list |-> acc]
    ELSE LET o == m.mCurrent
             f == [mIndices |-> << U16(o), U16(o + 2), U16(o + 4) >>, iSmoothGroup |-> 0]
         IN ReadFaces(Advance(Touch(m, o, 6), 8), iNum - 1, Append(acc, f))

\* a variant of Resize that fills with 0
Resize_Zero(seq, n, v) ==
  [i \in 1 .. n |-> IF i <= Len(seq) THEN seq[i] ELSE 0]

\* std::vector::resize(n, v) for n >= size()
Resize(seq, n, v) ==
  [i \in 1 .. n |-> IF i <= Len(seq) THEN seq[i] ELSE v]

\* the value of a float read from the file when it is a small whole number
\* (the sequence is empty when it is not)
SmallFloat(bits) ==
  IF bits = 0 \/ bits = MinusZeroBits THEN << 0 >>
  ELSE IF bits = FloatOne THEN << 1 >>
  ELSE IF bits = FloatOne + MinusZeroBits THEN << -1 >>
  ELSE IF bits = 1073741824 THEN << 2 >>
  ELSE IF bits = 1073741824 + MinusZeroBits THEN << -2 >>
  ELSE << >>

\* aiMatrix4x4::Determinant() < 0.0f for the matrix read from pf (its fourth
\* column is 0 0 0 1).  Exact when the nine entries are small whole numbers;
\* for other entries the set holds both answers.
DeterminantNegative(pf) ==
  IF \A i \in 1 .. 9 : SmallFloat(pf[i]) # << >>
    THEN LET v(i) == SmallFloat(pf[i])[1]
             det == v(1) * (v(5) * v(9) - v(8) * v(6)) - v(4) * (v(2) * v(9) - v(8) * v(3))
                      + v(7) * (v(2) * v(6) - v(5) * v(3))
         IN {det < 0}
    ELSE BOOLEAN

\* case CHUNK_TRMATRIX of ParseMeshChunk; negative: Determinant() < 0.0f
TrMatrix(m, negative) ==
  LET o == m.mCurrent
      pf == [i \in 1 .. 12 |-> Word32(o + 4 * (i - 1))]
      mesh == Back(m.mScene.mMeshes)
      flipped == [i \in 1 .. Len(mesh.mPositions) |->
                    [mesh.mPositions[i] EXCEPT !.normalizedBy = Append(@, pf)]]
      mesh1 == [mesh EXCEPT !.mMat = pf,
                            !.mPositions = IF negative THEN flipped ELSE @]
  IN [Advance(Touch(m, o, 48), 48) EXCEPT !.mScene.mMeshes = SetBack(@, mesh1)]

\* case CHUNK_FACELIST of ParseMeshChunk
FaceList(m, h) ==
  LET r == ReadFaces(Advance(Touch(m, m.mCurrent, 2), 2), U16(m.mCurrent), << >>)
      mesh == Back(m.mScene.mMeshes)
      faces == mesh.mFaces \o r.list
      mesh1 == [mesh EXCEPT !.mFaces = faces,
                            !.mFaceMaterials = Resize(@, Len(faces), DefaultMaterialIndex)]
      m1 == [r.m EXCEPT !.mScene.mMeshes = SetBack(@, mesh1)]
      iRemaining == h.pcCurNext - m1.mCurrent
  IN IF iRemaining > 0 THEN Call(m1, "ParseFaceChunk", iRemaining, "") ELSE m1

\* Dot3DSImporter::ParseMeshChunk
MeshCase(m, h, negative) ==
  IF h.Flag = CHUNK_VERTLIST
    THEN LET r == ReadVertices(Advance(Touch(m, m.mCurrent, 2), 2), U16(m.mCurrent), << >>)
         IN [r.m EXCEPT !.mScene.mMeshes =
               SetBack(@, [Back(@) EXCEPT !.mPositions = @ \o r.list])]
  ELSE IF h.Flag = CHUNK_TRMATRIX
    THEN TrMatrix(m, negative)
  ELSE IF h.Flag = CHUNK_MAPLIST
    THEN LET r == ReadTexCoords(Advance(Touch(m, m.mCurrent, 2), 2), U16(m.mCurrent), << >>)
         IN [r.m EXCEPT !.mScene.mMeshes =
               SetBack(@, [Back(@) EXCEPT !.mTexCoords = @ \o r.list])]
  ELSE IF h.Flag = CHUNK_FACELIST
    THEN FaceList(m, h)
  ELSE m

\* for (i = mMesh.mFaces.begin(); ...) of case CHUNK_SMOOLIST
RECURSIVE ReadSmoothing(_, _, _)
ReadSmoothing(m, faces, i) ==
  IF i > Len(faces) \/ m.far
    THEN [m |-> m, list |-> faces]
    ELSE LET o == m.mCurrent
         IN ReadSmoothing(Advance(Touch(m, o, 4), 4),
                          [faces EXCEPT ![i].iSmoothGroup = Word32(o)], i + 1)

\* the search loop of case CHUNK_FACEMAT: [iIndex, m] with iIndex the (0-based)
\* index of the first material whose name equals the string at mCurrent
RECURSIVE FindMaterial(_, _, _)
FindMaterial(m, mats, iCnt) ==
  IF iCnt >= Len(mats)
    THEN [iIndex |-> NotFoundIndex, m |-> m]
    ELSE LET c == ASSIMP_stricmp(m, m.mCurrent, mats[iCnt + 1].mName)
         IN IF c.eq
              THEN [iIndex |-> iCnt, m |-> c.m]
              ELSE FindMaterial(c.m, mats, iCnt + 1)

\* for (i = 0; i < iCnt; ++i) of case CHUNK_FACEMAT
RECURSIVE AssignFaces(_, _, _, _)
AssignFaces(m, fm, iCnt, iIndex) ==
  IF iCnt = 0 \/ m.far
    THEN [m |-> m, list |-> fm]
    ELSE LET iTemp == U16(m.mCurrent)
             m1 == [Advance(Touch(m, m.mCurrent, 2), 2) EXCEPT !.listed = @ \cup {iTemp}]
         IN IF iTemp >= Len(fm)
              THEN LET m2 == Warn(m1, "Invalid face index in face material list")
                   IN IF Len(fm) = 0
                        THEN AssignFaces(Undefined(m2), fm, iCnt - 1, iIndex)
                        ELSE AssignFaces(m2, [fm EXCEPT ![Len(fm)] = iIndex],
                                         iCnt - 1, iIndex)
              ELSE AssignFaces(m1, [fm EXCEPT ![iTemp + 1] = iIndex], iCnt - 1, iIndex)

\* case CHUNK_FACEMAT of ParseFaceChunk, the face loop having given r
FaceMatAssigned(r) ==
  [r.m EXCEPT !.mScene.mMeshes =
     SetBack(@, [Back(@) EXCEPT
                   !.mFaceMaterials = r.list,
                   !.listed = @ \cup {j \in r.m.listed : j < Len(r.list)},
                   !.clamped = @ \cup {Len(r.list) - 1 : i \in {j \in r.m.listed : j >= Len(r.list)}}])]

\* case CHUNK_FACEMAT of ParseFaceChunk from the face count at sz on, the
\* search for the material having given f
FaceMatFound(sz, f) ==
  FaceMatAssigned(
    AssignFaces(Advance(Touch([f.m EXCEPT !.mCurrent = sz], sz, 2), 2),
                Back(f.m.mScene.mMeshes).mFaceMaterials, U16(sz),
                IF f.iIndex = NotFoundIndex THEN DefaultMaterialIndex ELSE f.iIndex))

\* case CHUNK_FACEMAT of ParseFaceChunk, the scan of the name having given sc
FaceMatNamed(sc) == FaceMatFound(sc.sz, FindMaterial(sc.m, sc.m.mScene.mMaterials, 0))

\* case CHUNK_FACEMAT of ParseFaceChunk
FaceMat(m, h) == FaceMatNamed(ScanName(m, m.mCurrent, 0, h.pcCurNext))

\* Dot3DSImporter::ParseFaceChunk
FaceCase(m, h) ==
  IF h.Flag = CHUNK_SMOOLIST
    THEN LET r == ReadSmoothing(m, Back(m.mScene.mMeshes).mFaces, 1)
         IN [r.m EXCEPT !.mScene.mMeshes = SetBack(@, [Back(@) EXCEPT !.mFaces = r.list])]
  ELSE IF h.Flag = CHUNK_FACEMAT
    THEN FaceMat(m, h)
  ELSE m

\* ------------------------------------------------------------- materials
\* a colour channel of the material, ParseColorChunk having given r: the
\* colour or the fallback
MatColorOf(r, field, fallback, msg) ==
  IF r.m.err # "" \/ r.m.hang
    THEN r.m
    ELSE IF is_qnan(r.c.r)
      THEN [Warn(r.m, msg) EXCEPT !.mScene.mMaterials =
              SetBack(@, [Back(@) EXCEPT ![field] =
                            aiColor3D(FBits(fallback), FBits(fallback), FBits(fallback))])]
      ELSE [r.m EXCEPT !.mScene.mMaterials = SetBack(@, [Back(@) EXCEPT ![field] = r.c])]

\* a colour channel of the material: ParseColorChunk, then the fallback
MatColor(m, field, fallback, msg) ==
  MatColorOf(ParseColorChunk(m, FALSE), field, fallback, msg)

\* a percentage of the material, ParsePercentageChunk having given r: the
\* fallback or the conversion named conv
MatPercentOf(r, field, fallback, conv) ==
  IF r.m.err # ""
    THEN r.m
    ELSE [r.m EXCEPT !.mScene.mMaterials =
            SetBack(@, [Back(@) EXCEPT ![field] =
                          IF is_qnan(r.v) THEN FBits(fallback) ELSE FApply(conv, r.v)])]

\* a percentage of the material: ParsePercentageChunk, then the fallback or
\* the conversion named conv
MatPercent(m, field, fallback, conv) ==
  MatPercentOf(ParsePercentageChunk(m), field, fallback, conv)

\* case CHUNK_MAT_SELF_ILPCT, ParsePercentageChunk having given r: the
\* percentage goes to sTexEmissive.mTextureBlend
MatSelfIlpctOf(r) ==
  IF r.m.err # ""
    THEN r.m
    ELSE [r.m EXCEPT !.mScene.mMaterials =
            SetBack(@, [Back(@) EXCEPT !.sTexEmissive.mTextureBlend =
                          IF is_qnan(r.v) THEN FBits(FloatZero)
                          ELSE FApply("x*65535/100", r.v)])]

\* case CHUNK_MAT_SELF_ILPCT of ParseMaterialChunk
MatSelfIlpct(m) == MatSelfIlpctOf(ParsePercentageChunk(m))

\* case CHUNK_MAT_MATNAME of ParseMaterialChunk
MatName(m, h) ==
  LET sc == ScanName(m, m.mCurrent, 0, h.pcCurNext)
      truncated == Peek(sc.sz - 1) # 0
      m1 == IF truncated THEN Warn(sc.m, "Material name string is too long") ELSE sc.m
  IN [m1 EXCEPT !.mScene.mMaterials =
        SetBack(@, [Back(@) EXCEPT !.mName = Bytes(m.mCurrent, sc.iCnt)])]

\* the texture slot a texture map chunk fills ("" for any other chunk)
TextureSlot(flag) ==
  IF flag = CHUNK_MAT_TEXTURE THEN "sTexDiffuse"
  ELSE IF flag = CHUNK_MAT_BUMPMAP THEN "sTexBump"
  ELSE IF flag = CHUNK_MAT_OPACMAP THEN "sTexOpacity"
  ELSE IF flag = CHUNK_MAT_MAT_SHINMAP THEN "sTexShininess"
  ELSE IF flag = CHUNK_MAT_SPECMAP THEN "sTexSpecular"
  ELSE IF flag = CHUNK_MAT_SELFIMAP THEN "sTexEmissive"
  ELSE ""

\* Dot3DSImporter::ParseMaterialChunk
MaterialCase(m, h) ==
  IF h.Flag = CHUNK_MAT_MATNAME
    THEN MatName(m, h)
  ELSE IF h.Flag = CHUNK_MAT_DIFFUSE
    THEN MatColor(m, "mDiffuse", FloatOne, "Unable to read DIFFUSE chunk")
  ELSE IF h.Flag = CHUNK_MAT_SPECULAR
    THEN MatColor(m, "mSpecular", FloatOne, "Unable to read SPECULAR chunk")
  ELSE IF h.Flag = CHUNK_MAT_AMBIENT
    THEN MatColor(m, "mAmbient", FloatOne, "Unable to read AMBIENT chunk")
  ELSE IF h.Flag = CHUNK_MAT_SELF_ILLUM
    THEN MatColor(m, "mEmissive", FloatZero, "Unable to read EMISSIVE chunk")
  ELSE IF h.Flag = CHUNK_MAT_TRANSPARENCY
    THEN MatPercent(m, "mTransparency", FloatOne, "1-x*65535/100")
  ELSE IF h.Flag = CHUNK_MAT_SHADING
    THEN Advance([Touch(m, m.mCurrent, 2) EXCEPT !.mScene.mMaterials =
                    SetBack(@, [Back(@) EXCEPT !.mShading = U16(m.mCurrent)])], 2)
  ELSE IF h.Flag = CHUNK_MAT_TWO_SIDE
    THEN [m EXCEPT !.mScene.mMaterials = SetBack(@, [Back(@) EXCEPT !.mTwoSided = TRUE])]
  ELSE IF h.Flag = CHUNK_MAT_SHININESS
    THEN MatPercent(m, "mSpecularExponent", FloatZero, "x*65535")
  ELSE IF h.Flag = CHUNK_MAT_SHININESS_PERCENT
    THEN MatPercent(m, "mShininessStrength", FloatZero, "x*65535/100")
  ELSE IF h.Flag = CHUNK_MAT_SELF_ILPCT
    THEN MatSelfIlpct(m)
  ELSE IF TextureSlot(h.Flag) # ""
    THEN Call(m, "ParseTextureChunk", PayloadSize(h), TextureSlot(h.Flag))
  ELSE m

\* pcOut->mScaleU / mScaleV: zero is replaced by 1.0
TexScale(m, msg) ==
  IF IsZeroFloat(F32(m.mCurrent))
    THEN [m |-> Warn(Touch(m, m.mCurrent, 4), msg), v |-> FBits(FloatOne)]
    ELSE [m |-> Touch(m, m.mCurrent, 4), v |-> F32(m.mCurrent)]

\* case CHUNK_MAT_MAP_TILING: the map mode after flags word iFlags
Tiling(mMapMode, iFlags) ==
  IF (iFlags \div 2) % 2 = 1
    THEN "aiTextureMapMode_Mirror"
    ELSE IF (iFlags \div 16) % 2 = 1 /\ iFlags % 2 = 1
      THEN "aiTextureMapMode_Clamp"
      ELSE mMapMode

\* Dot3DSImporter::ParseTextureChunk; pcOut names the slot of the last material
TextureCase(m, h, pcOut) ==
  LET mat == Back(m.mScene.mMaterials)
      tex == mat[pcOut]
      o == m.mCurrent
      Put(m1, tex1) ==
        [m1 EXCEPT !.mScene.mMaterials = SetBack(@, [mat EXCEPT ![pcOut] = tex1])]
  IN IF h.Flag = CHUNK_MAPFILE
       THEN LET sc == ScanName(m, o, 0, h.pcCurNext)
            IN Put(sc.m, [tex EXCEPT !.mMapName = Bytes(o, sc.iCnt)])
     ELSE IF h.Flag = CHUNK_PERCENTF
       THEN Put(Touch(m, o, 4), [tex EXCEPT !.mTextureBlend = F32(o)])
     ELSE IF h.Flag = CHUNK_PERCENTW
       THEN Put(Touch(m, o, 2), [tex EXCEPT !.mTextureBlend = FRatio("div100", S16(o))])
     ELSE IF h.Flag = CHUNK_MAT_MAP_USCALE
       THEN LET sc == TexScale(m, "Texture coordinate scaling in the x direction is zero")
            IN Put(sc.m, [tex EXCEPT !.mScaleU = sc.v])
     ELSE IF h.Flag = CHUNK_MAT_MAP_VSCALE
       THEN LET sc == TexScale(m, "Texture coordinate scaling in the y direction is zero")
            IN Put(sc.m, [tex EXCEPT !.mScaleV = sc.v])
     ELSE IF h.Flag = CHUNK_MAT_MAP_UOFFSET
       THEN Put(Touch(m, o, 4), [tex EXCEPT !.mOffsetU = F32(o)])
     ELSE IF h.Flag = CHUNK_MAT_MAP_VOFFSET
       THEN Put(Touch(m, o, 4), [tex EXCEPT !.mOffsetV = F32(o)])
     ELSE IF h.Flag = CHUNK_MAT_MAP_ANG
       THEN Put(Touch(m, o, 4), [tex EXCEPT !.mRotation = F32(o)])
     ELSE IF h.Flag = CHUNK_MAT_MAP_TILING
       THEN Put(Touch(m, o, 2), [tex EXCEPT !.mMapMode = Tiling(@, U16(o))])
     ELSE m

\* ------------------------------------------------------------ dispatcher
\* A stack frame is one activation of a container function: fn its name,
\* piRemaining the budget it counts down, pcOut the texture slot
\* (ParseTextureChunk), and, while it waits for a container function it
\* called, pcCurNext and Size of the chunk it is handling.
Frame(fn, piRemaining, pcOut) ==
  [fn |-> fn, piRemaining |-> piRemaining, pcOut |-> pcOut, pcCurNext |-> 0, Size |-> 0]

Top == stack[Len(stack)]

NoHeader == [null |-> TRUE, at |-> 0, Flag |-> 0, Size |-> 0, pcCur |-> 0, pcCurNext |-> 0]

\* ASSIMP_3DS_BEGIN_CHUNK with the cursor at offset at, ReadChunk having
\* given r: [m: memory afterwards, h: the chunk found]
ChunkBegun(at, r) ==
  IF r.m.err # "" /\ r.p.null
    THEN [m |-> r.m, h |-> NoHeader]
  ELSE IF r.m.err # ""
    THEN [m |-> r.m,
          h |-> [null |-> FALSE, at |-> at, Flag |-> ChunkFlag(r.p),
                 Size |-> ChunkSize(r.p), pcCur |-> at, pcCurNext |-> at]]
    ELSE [m |-> Deref(r.m, r.p),
          h |-> [null |-> r.p.null, at |-> at,
                 Flag |-> ChunkFlag(r.p), Size |-> ChunkSize(r.p),
                 pcCur |-> r.m.mCurrent,
                 pcCurNext |-> r.m.mCurrent + (ChunkSize(r.p) - HeaderSize)]]

\* ASSIMP_3DS_BEGIN_CHUNK: [m: memory afterwards, h: the chunk found]
BeginChunk(m0) == ChunkBegun(m0.mCurrent, ReadChunk(m0))

\* ASSIMP_3DS_VALIDATE_CHUNK_SIZE: pcCurNext afterwards
ValidateChunkSize(pcCurNext, cur) ==
  IF debugBuild /\ pcCurNext < cur THEN cur ELSE pcCurNext

\* ASSIMP_3DS_END_CHUNK for the innermost frame of stk, whose chunk handling
\* ended with the cursor at cur, and, when it returns, for the frames below:
\* [stack, mCurrent, warn] afterwards
RECURSIVE EndChunk(_, _, _)
EndChunk(stk, cur, warn) ==
  IF stk = << >>
    THEN [stack |-> stk, mCurrent |-> cur, warn |-> warn]
    ELSE LET f == stk[Len(stk)]
             next == ValidateChunkSize(f.pcCurNext, cur)
             w == IF debugBuild /\ f.pcCurNext < cur
                    THEN warn \cup {"chunk overflow"} ELSE warn
             rem == Sub32(f.piRemaining, f.Size)
         IN IF 0 >= rem
              THEN EndChunk(SubSeq(stk, 1, Len(stk) - 1), next, w)
              ELSE [stack |-> [stk EXCEPT ![Len(stk)] =
                                 [f EXCEPT !.piRemaining = rem, !.pcCurNext = 0, !.Size = 0]],
                    mCurrent |-> next, warn |-> w]

\* the declared end of the chunk whose children frame number i iterates over
ContainerEnd(stk, i) == IF i = 1 THEN fileSize ELSE stk[i - 1].pcCurNext

\* the answers Determinant() < 0.0f may give in a pass of ParseMeshChunk that
\* began with b
DeterminantChoices(b) ==
  IF b.m.err = "" /\ b.h.Flag = CHUNK_TRMATRIX
    THEN DeterminantNegative([i \in 1 .. 9 |-> Word32(b.h.pcCur + 4 * (i - 1))])
    ELSE {FALSE}

\* whether a step that ended with memory m crashes: not without undefined
\* behaviour, always after an access to unmapped memory (endless recursion
\* ends in a crash when the build does not turn the tail call into a jump)
CrashChoices(m) ==
  IF m.far THEN {TRUE} ELSE IF m.ub \/ m.hang THEN {TRUE, FALSE} ELSE {FALSE}

\* what the pass did, for the properties
IterRecord(h, m, stk, crashed) ==
  [ fn |-> Top.fn, null |-> h.null, at |-> h.at, Flag |-> h.Flag, Size |-> h.Size,
    pcCurNext |-> h.pcCurNext, handled |-> m.mCurrent,
    before |-> Top.piRemaining,
    after |-> IF Len(stk) >= Len(stack) THEN stk[Len(stack)].piRemaining
              ELSE Sub32(Top.piRemaining, h.Size),
    returned |-> Len(stk) < Len(stack), entered |-> m.call.fn,
    thrown |-> m.err # "", crashed |-> crashed, hung |-> m.hang /\ ~crashed,
    ub |-> m.ub, hdrs |-> m.hdrs, listed |-> m.listed,
    cend |-> ContainerEnd(stack, Len(stack)), depth |-> Len(stack) ]

NoIter ==
  [ fn |-> "", null |-> FALSE, at |-> 0, Flag |-> 0, Size |-> 0, pcCurNext |-> 0,
    handled |-> 0, before |-> 0, after |-> 0, returned |-> FALSE, entered |-> "",
    thrown |-> FALSE, crashed |-> FALSE, hung |-> FALSE, ub |-> FALSE, hdrs |-> {},
    listed |-> {}, cend |-> 0, depth |-> 0 ]

\* the members take the values of memory m
Commit(m) ==
  /\ mScene' = m.mScene
  /\ mClrAmbient' = m.mClrAmbient
  /\ node' = m.node
  /\ mCurrentNode' = m.mCurrentNode
  /\ mLastNodeIndex' = m.mLastNodeIndex
  /\ mMasterScale' = m.mMasterScale
  /\ mBackgroundImage' = m.mBackgroundImage
  /\ bHasBG' = m.bHasBG
  /\ rd' = m.rd

\* container function fn is the innermost one running
Running(fn) ==
  /\ status = "parsing"
  /\ stack # << >>
  /\ Top.fn = fn
  /\ passes < MaxPasses

\* One pass through the innermost container function: BEGIN_CHUNK gave b,
\* the switch gives memory handled; then either the call of another container
\* function or VALIDATE_CHUNK_SIZE and END_CHUNK.
Pass(b, handled) ==
  LET m == IF b.m.err # "" THEN b.m ELSE handled
      h == b.h
      waiting == [stack EXCEPT ![Len(stack)] =
                    [@ EXCEPT !.pcCurNext = h.pcCurNext, !.Size = h.Size]]
  IN \E crash \in CrashChoices(m), e \in {EndChunk(waiting, m.mCurrent, m.warn)} :
       /\ passes' = passes + 1
       /\ UNCHANGED << mBuffer, fileSize, junk, debugBuild, keyframeAnimation, narrow, mRootNode, pScene, phases,
                       decodes >>
       /\ IF crash \/ m.hang
            THEN /\ status' = IF crash THEN "crashed" ELSE "hung"
                 /\ rd' = m.rd
                 /\ iter' = IterRecord(h, m, stack, crash)
                 /\ UNCHANGED << errMsg, mCurrent, stack, mScene, mClrAmbient, node,
                                 mCurrentNode, mLastNodeIndex, mMasterScale,
                                 mBackgroundImage, bHasBG, warned >>
          ELSE IF m.err # ""
            THEN /\ status' = "error"
                 /\ errMsg' = m.err
                 /\ Commit(m)
                 /\ mCurrent' = m.mCurrent
                 /\ stack' = << >>
                 /\ iter' = IterRecord(h, m, stack, FALSE)
                 /\ warned' = m.warn
          ELSE IF m.call.fn # ""
            THEN /\ Commit(m)
                 /\ mCurrent' = m.mCurrent
                 /\ stack' = Append(waiting, Frame(m.call.fn, m.call.piRemaining, m.call.pcOut))
                 /\ iter' = IterRecord(h, m, stack, FALSE)
                 /\ warned' = m.warn
                 /\ UNCHANGED << status, errMsg >>
          ELSE /\ Commit(m)
               /\ mCurrent' = e.mCurrent
               /\ stack' = e.stack
               /\ status' = IF e.stack = << >> THEN "parsed" ELSE "parsing"
               /\ iter' = IterRecord(h, m, e.stack, FALSE)
               /\ warned' = e.warn
               /\ UNCHANGED errMsg

ParseMainChunk ==
  /\ Running("ParseMainChunk")
  /\ \E b \in {BeginChunk(Mem)} : Pass(b, MainCase(b.m, b.h))

ParseEditorChunk ==
  /\ Running("ParseEditorChunk")
  /\ \E b \in {BeginChunk(Mem)} : Pass(b, EditorCase(b.m, b.h))

ParseObjectChunk ==
  /\ Running("ParseObjectChunk")
  /\ \E b \in {BeginChunk(Mem)} : Pass(b, ObjectCase(b.m, b.h))

ParseChunk ==
  /\ Running("ParseChunk")
  /\ \E b \in {BeginChunk(Mem)} : Pass(b, ChunkCase(b.m, b.h))

ParseKeyframeChunk ==
  /\ Running("ParseKeyframeChunk")
  /\ \E b \in {BeginChunk(Mem)} : Pass(b, KeyframeCase(b.m, b.h))

ParseHierarchyChunk ==
  /\ Running("ParseHierarchyChunk")
  /\ \E b \in {BeginChunk(Mem)} : Pass(b, HierarchyCase(b.m, b.h))

ParseMeshChunk ==
  /\ Running("ParseMeshChunk")
  /\ \E b \in {BeginChunk(Mem)} :
       \E negative \in DeterminantChoices(b) : Pass(b, MeshCase(b.m, b.h, negative))

ParseFaceChunk ==
  /\ Running("ParseFaceChunk")
  /\ \E b \in {BeginChunk(Mem)} : Pass(b, FaceCase(b.m, b.h))

ParseMaterialChunk ==
  /\ Running("ParseMaterialChunk")
  /\ \E b \in {BeginChunk(Mem)} : Pass(b, MaterialCase(b.m, b.h))

ParseTextureChunk ==
  /\ Running("ParseTextureChunk")
  /\ \E b \in {BeginChunk(Mem)} : Pass(b, TextureCase(b.m, b.h, Top.pcOut))

\* ------------------------------------------------------------ input files
RECURSIVE Cat(_)
Cat(ss) == IF ss = << >> THEN << >> ELSE Head(ss) \o Cat(Tail(ss))

\* four bytes of a float with the given bits
Float(bits) == Le32(bits)

\* a mesh that refers to a material: material "a", object "m" with one vertex,
\* two faces, face material list and smoothing groups
MeshFile ==
  Chunk(CHUNK_MAIN,
    Chunk(CHUNK_OBJMESH,
      Chunk(CHUNK_MAT_MATERIAL, Chunk(CHUNK_MAT_MATNAME, << 97, 0 >>))
      \o Chunk(CHUNK_OBJBLOCK, << 109, 0 >> \o
           Chunk(CHUNK_TRIMESH,
             Chunk(CHUNK_VERTLIST, Le16(1) \o Float(FloatOne) \o Float(FloatZero) \o Float(FloatOne))
             \o Chunk(CHUNK_FACELIST,
                  Le16(2) \o << 0, 0, 0, 0, 0, 0, 0, 0 >> \o << 0, 0, 0, 0, 0, 0, 0, 0 >>
                  \o Chunk(CHUNK_FACEMAT, << 65, 0 >> \o Le16(1) \o Le16(1))
                  \o Chunk(CHUNK_FACEMAT, << 98, 0 >> \o Le16(1) \o Le16(0))
                  \o Chunk(CHUNK_SMOOLIST, Le32(1) \o Le32(2)))))))

\* a mesh with texture coordinates and a mirroring local transform
GeometryFile ==
  Chunk(CHUNK_MAIN,
    Chunk(CHUNK_OBJMESH,
      Chunk(CHUNK_OBJBLOCK, << 0 >> \o
        Chunk(CHUNK_TRIMESH,
          Chunk(CHUNK_VERTLIST, Le16(1) \o Float(FloatOne) \o Float(FloatZero) \o Float(FloatZero))
          \o Chunk(CHUNK_MAPLIST, Le16(1) \o Float(FloatZero) \o Float(FloatOne))
          \o Chunk(CHUNK_TRMATRIX,
               Float(FloatOne + MinusZeroBits) \o Float(FloatZero) \o Float(FloatZero)
               \o Float(FloatZero) \o Float(FloatOne) \o Float(FloatZero)
               \o Float(FloatZero) \o Float(FloatZero) \o Float(FloatOne)
               \o Float(FloatZero) \o Float(FloatZero) \o Float(FloatZero))))))

\* scene settings and a material with colours and percentages
MaterialFile ==
  Chunk(CHUNK_MAIN,
    Chunk(CHUNK_OBJMESH,
      Chunk(CHUNK_MASTER_SCALE, Float(FloatOne))
      \o Chunk(CHUNK_AMBCOLOR, Chunk(CHUNK_PERCENTW, << 50, 0 >>))
      \o Chunk(CHUNK_BIT_MAP, << 98, 0 >>)
      \o Chunk(CHUNK_BIT_MAP_EXISTS, << >>)
      \o Chunk(CHUNK_MAT_MATERIAL,
           Chunk(CHUNK_MAT_MATNAME, << 97, 0 >>)
           \o Chunk(CHUNK_MAT_DIFFUSE, Chunk(CHUNK_RGBB, << 200, 100, 50 >>))
           \o Chunk(CHUNK_MAT_SPECULAR, Chunk(CHUNK_LINRGBB, << 200, 100, 50 >>))
           \o Chunk(CHUNK_MAT_AMBIENT,
                Chunk(CHUNK_RGBF, Float(FloatOne) \o Float(FloatZero) \o Float(FloatOne)))
           \o Chunk(CHUNK_MAT_SELF_ILLUM, Chunk(CHUNK_PERCENTW, << 50, 0 >>))
           \o Chunk(CHUNK_MAT_TRANSPARENCY, Chunk(CHUNK_PERCENTW, << 50, 0 >>))
           \o Chunk(CHUNK_MAT_SHININESS, Chunk(CHUNK_PERCENTF, Float(FloatOne)))
           \o Chunk(CHUNK_MAT_SHADING, Le16(3))
           \o Chunk(CHUNK_MAT_TWO_SIDE, << >>))))

\* a material with a texture map
TextureFile ==
  Chunk(CHUNK_MAIN,
    Chunk(CHUNK_OBJMESH,
      Chunk(CHUNK_MAT_MATERIAL,
        Chunk(CHUNK_MAT_SHININESS_PERCENT, Chunk(CHUNK_PERCENTW, << 50, 0 >>))
        \o Chunk(CHUNK_MAT_SELF_ILPCT, Chunk(CHUNK_PERCENTW, << 50, 0 >>))
        \o Chunk(CHUNK_MAT_TEXTURE,
             Chunk(CHUNK_MAPFILE, << 116, 0 >>)
             \o Chunk(CHUNK_PERCENTW, << 50, 0 >>)
             \o Chunk(CHUNK_MAT_MAP_USCALE, Float(FloatZero))
             \o Chunk(CHUNK_MAT_MAP_TILING, Le16(2))
             \o Chunk(CHUNK_MAT_MAP_TILING, Le16(17))))))

\* the keyframer: two nodes, a pivot
KeyframeFile ==
  Chunk(CHUNK_MAIN,
    Chunk(CHUNK_VERSION, Le16(3))
    \o Chunk(CHUNK_KEYFRAMER,
      Chunk(CHUNK_TRACKINFO,
        Chunk(CHUNK_TRACKOBJNAME, << 97, 0 >> \o << 0, 0, 0, 0 >> \o Le16(65535))
        \o Chunk(CHUNK_TRACKPIVOT, Float(FloatOne) \o Float(FloatZero) \o Float(FloatOne)))
      \o Chunk(CHUNK_TRACKINFO,
        Chunk(CHUNK_TRACKOBJNAME, << 98, 0 >> \o << 0, 0, 0, 0 >> \o Le16(0)))))

BaseFiles == {MeshFile, GeometryFile, MaterialFile, TextureFile, KeyframeFile}

\* the values a fuzzed byte takes
MutVals == (0 .. MaxMutVal) \cup {HeaderSize, 255}

Mutations(b) == {[b EXCEPT ![i] = v] : i \in 1 .. Len(b), v \in MutVals}

Truncations(b) == {SubSeq(b, 1, Len(b) - t) : t \in 1 .. MaxTrunc}

\* files too short to be accepted, and the shortest one that is
ShortFiles == {SubSeq(KeyframeFile, 1, n) : n \in 0 .. MinFileSize}

\* hierarchy records only: every sequence of up to MaxNodes level words, each
\* 0xFFFF (level 0 after the increment) or in 0 .. MaxLevel
MaxNodes == 4
MaxLevel == 1

LevelWords == {65535} \cup (0 .. MaxLevel)

LevelSeqs == UNION {[1 .. n -> LevelWords] : n \in 1 .. MaxNodes}

HierarchyFile(levels) ==
  Chunk(CHUNK_MAIN,
    Chunk(CHUNK_KEYFRAMER,
      Chunk(CHUNK_TRACKINFO,
        Cat([i \in 1 .. Len(levels) |->
               Chunk(CHUNK_TRACKOBJNAME, << 64 + i, 0 >> \o << 0, 0, 0, 0 >> \o Le16(levels[i]))]))))

HierarchyFiles == {HierarchyFile(l) : l \in LevelSeqs}

\* tracks only: one node with one or two track chunks of the same kind; the
\* first holds up to MaxKeys keys, the second at most one; a key is a frame
\* number of 0 or 1 and a value whose floats are all 0.0 or all 1.0
MaxKeys == 2

KeySeqs(n) ==
  UNION {[1 .. k -> {[frame |-> f, bits |-> b] : f \in {0, 1}, b \in {FloatZero, FloatOne}}] :
           k \in 0 .. n}

TrackChunk(tag, keys) ==
  Chunk(tag,
    << 0, 0, 0, 0, 0, 0, 0, 0, 0, 0 >> \o Le16(Len(keys)) \o Le16(0)
    \o Cat([i \in 1 .. Len(keys) |->
           Le16(keys[i].frame) \o << 0, 0, 0, 0 >>
           \o Cat([j \in 1 .. (IF tag = CHUNK_TRACKROTATE THEN 4 ELSE 3) |->
                    Float(keys[i].bits)])]))

TrackFile(tag, chunks) ==
  Chunk(CHUNK_MAIN,
    Chunk(CHUNK_KEYFRAMER,
      Chunk(CHUNK_TRACKINFO,
        Chunk(CHUNK_TRACKOBJNAME, << 97, 0 >> \o << 0, 0, 0, 0 >> \o Le16(65535))
        \o Cat([i \in 1 .. Len(chunks) |-> TrackChunk(tag, chunks[i])]))))

TrackFiles ==
  {TrackFile(tag, << k1 >>) :
     tag \in {CHUNK_TRACKPOS, CHUNK_TRACKROTATE, CHUNK_TRACKSCALE}, k1 \in KeySeqs(MaxKeys)}
  \cup
  {TrackFile(tag, << k1, k2 >>) :
     tag \in {CHUNK_TRACKPOS, CHUNK_TRACKROTATE, CHUNK_TRACKSCALE},
     k1 \in KeySeqs(MaxKeys), k2 \in KeySeqs(1)}

\* a main chunk whose payload is the header of a chunk with a tag no container
\* function knows and a declared size of 0 .. MaxUnknownSize, and four bytes
MaxUnknownSize == 10

UnknownFiles ==
  {Le16(CHUNK_MAIN) \o Le32(16) \o Le16(65535) \o Le32(size) \o << 0, 0, 0, 0 >> :
     size \in 0 .. MaxUnknownSize}

\* vertex lists and local transforms only: a mesh whose chunks are, in the
\* order given, a vertex list of one vertex ("V"), a mirroring transform
\* ("M") or the identity transform ("I")
MaxMeshChunks == 3

MeshOrderFile(order) ==
  LET matrix(a1) ==
        Float(a1) \o Float(FloatZero) \o Float(FloatZero)
        \o Float(FloatZero) \o Float(FloatOne) \o Float(FloatZero)
        \o Float(FloatZero) \o Float(FloatZero) \o Float(FloatOne)
        \o Float(FloatZero) \o Float(FloatZero) \o Float(FloatZero)
      chunk(c) ==
        IF c = "V"
          THEN Chunk(CHUNK_VERTLIST, Le16(1) \o Float(FloatOne) \o Float(FloatZero) \o Float(FloatOne))
          ELSE Chunk(CHUNK_TRMATRIX, matrix(IF c = "M" THEN FloatOne + MinusZeroBits ELSE FloatOne))
  IN Chunk(CHUNK_MAIN,
       Chunk(CHUNK_OBJMESH,
         Chunk(CHUNK_OBJBLOCK, << 109, 0 >> \o
           Chunk(CHUNK_TRIMESH, Cat([i \in 1 .. Len(order) |-> chunk(order[i])])))))

MeshOrderFiles ==
  {MeshOrderFile(order) : order \in UNION {[1 .. n -> {"V", "M", "I"}] : n \in 1 .. MaxMeshChunks}}

\* face lists only: a material "a", then a mesh with a face list of n1 faces
\* whose face material list names one material and one face index, and a
\* second face list of n2 faces
MaxFaces == 1

FaceBytes(n) == Cat([i \in 1 .. n |-> << 0, 0, 0, 0, 0, 0, 0, 0 >>])

FaceFile(n1, name, index, n2) ==
  Chunk(CHUNK_MAIN,
    Chunk(CHUNK_OBJMESH,
      Chunk(CHUNK_MAT_MATERIAL, Chunk(CHUNK_MAT_MATNAME, << 97, 0 >>))
      \o Chunk(CHUNK_OBJBLOCK, << 109, 0 >> \o
           Chunk(CHUNK_TRIMESH,
             Chunk(CHUNK_FACELIST,
               Le16(n1) \o FaceBytes(n1)
               \o Chunk(CHUNK_FACEMAT, << name, 0 >> \o Le16(1) \o Le16(index)))
             \o Chunk(CHUNK_FACELIST, Le16(n2) \o FaceBytes(n2))))))

FaceFiles ==
  {FaceFile(n1, name, index, n2) :
     n1 \in 0 .. MaxFaces, name \in {97, 120}, index \in 0 .. MaxFaces + 1,
     n2 \in 0 .. MaxFaces}

\* a main chunk whose children leave a residue of k bytes before its end,
\* which is the end of the file
MaxResidue == 5

ResidueFile(k) ==
  Chunk(CHUNK_MAIN,
    Chunk(CHUNK_VERSION, Le16(3)) \o Chunk(CHUNK_VERSION, Le16(3)) \o [i \in 1 .. k |-> 0])

ResidueFiles == {ResidueFile(k) : k \in 0 .. MaxResidue}

\* colours and percentages only: one chunk with the given tag, the scene
\* ambient colour or a property of a material, whose payload is sub, followed
\* by the bytes tail
ColorFile(tag, sub, tail) ==
  Chunk(CHUNK_MAIN,
    Chunk(CHUNK_OBJMESH,
      IF tag = CHUNK_AMBCOLOR
        THEN Chunk(tag, sub) \o tail
        ELSE Chunk(CHUNK_MAT_MATERIAL, Chunk(tag, sub) \o tail)))

\* the chunks that hold a colour, and those that hold a percentage
ColorChunks == {CHUNK_AMBCOLOR, CHUNK_MAT_DIFFUSE, CHUNK_MAT_SPECULAR, CHUNK_MAT_AMBIENT,
                CHUNK_MAT_SELF_ILLUM}

PercentChunks == {CHUNK_MAT_TRANSPARENCY, CHUNK_MAT_SHININESS, CHUNK_MAT_SHININESS_PERCENT,
                  CHUNK_MAT_SELF_ILPCT}

\* material names only: materials with the names before (one letter each), a
\* mesh of one face whose face material list has the name given, with or
\* without its terminator inside the chunk, and names face 0; then materials
\* with the names after
MaxMaterials == 2

NameFile(before, name, terminated, after) ==
  LET material(c) == Chunk(CHUNK_MAT_MATERIAL, Chunk(CHUNK_MAT_MATNAME, << c, 0 >>))
      materials(cs) == Cat([i \in 1 .. Len(cs) |-> material(cs[i])])
      list == Le16(1) \o Le16(0)
  IN Chunk(CHUNK_MAIN,
       Chunk(CHUNK_OBJMESH,
         materials(before)
         \o Chunk(CHUNK_OBJBLOCK, << 109, 0 >> \o
              Chunk(CHUNK_TRIMESH,
                Chunk(CHUNK_FACELIST,
                  Le16(1) \o FaceBytes(1)
                  \o (IF terminated
                        THEN Chunk(CHUNK_FACEMAT, << name, 0 >> \o list)
                        ELSE Chunk(CHUNK_FACEMAT, << name >>) \o list))))
         \o materials(after)))

NameFiles ==
  {NameFile(before, name, terminated, after) :
     before \in UNION {[1 .. n -> {97, 65, 98}] : n \in 0 .. MaxMaterials},
     name \in {97, 65, 120}, terminated \in BOOLEAN, after \in {<< >>, << 120 >>}}

\* such files; payloads: nothing, less than a header, a chunk of another kind,
\* encodings that are too short, and the encodings of a colour and of a
\* percentage; what follows: nothing, a chunk of another kind, a colour, a
\* percentage
ColorFiles ==
  LET payloads ==
        { << >>, << 0 >>,
          Chunk(CHUNK_MAT_TWO_SIDE, << >>),
          Chunk(CHUNK_RGBB, << 200, 100 >>),
          Chunk(CHUNK_PERCENTF, << >>),
          Chunk(CHUNK_RGBB, << 200, 100, 50 >>),
          Chunk(CHUNK_LINRGBF, Float(FloatOne) \o Float(FloatZero) \o Float(FloatOne)),
          Chunk(CHUNK_PERCENTF, Float(FloatOne)),
          Chunk(CHUNK_PERCENTW, << 50, 0 >>),
          Chunk(CHUNK_PERCENTW, << 50, 0 >>) \o Chunk(CHUNK_RGBB, << 200, 100, 50 >>) }
      tails ==
        { << >>,
          Chunk(CHUNK_MAT_TWO_SIDE, << >>),
          Chunk(CHUNK_RGBB, << 10, 20, 30 >>),
          Chunk(CHUNK_PERCENTW, << 25, 0 >>) }
  IN {ColorFile(tag, sub, tail) :
        tag \in ColorChunks \cup PercentChunks, sub \in payloads, tail \in tails}

\* the files an instance that has decoded one of them is given for another
\* decode: a scene ambient colour, a material with a diffuse colour, two
\* hierarchy records
AgainFiles ==
  { ColorFile(CHUNK_AMBCOLOR, Chunk(CHUNK_RGBB, << 200, 100, 50 >>), << >>),
    ColorFile(CHUNK_MAT_DIFFUSE, Chunk(CHUNK_RGBB, << 200, 100, 50 >>), << >>),
    HierarchyFile(<< 65535, 0 >>) }

InputFiles ==
  BaseFiles \cup UNION {Mutations(b) \cup Truncations(b) : b \in BaseFiles}
    \cup ShortFiles \cup HierarchyFiles \cup FaceFiles \cup ResidueFiles \cup ColorFiles
    \cup TrackFiles \cup MeshOrderFiles \cup UnknownFiles
    \cup NameFiles

\* the bytes outside the buffer: zero, or not
JunkBytes == {0, 1}

\* --------------------------------------------------------------- the decoder
Init ==
  /\ mBuffer = << >>
  /\ fileSize = 0
  /\ junk \in JunkBytes
  /\ debugBuild \in BOOLEAN
  /\ keyframeAnimation \in BOOLEAN
  /\ narrow \in BOOLEAN
  /\ status = "idle"
  /\ errMsg = ""
  /\ mCurrent = 0
  /\ stack = << >>
  /\ mScene = NoScene
  /\ mClrAmbient = aiColor3D(FBits(FloatZero), FBits(FloatZero), FBits(FloatZero))
  /\ node = << >>
  /\ mCurrentNode = 0
  /\ mRootNode = 0
  /\ mLastNodeIndex = 0
  /\ mMasterScale = FBits(FloatZero)
  /\ mBackgroundImage = << >>
  /\ bHasBG = FALSE
  /\ pScene = "empty"
  /\ phases = << >>
  /\ rd = {}
  /\ iter = NoIter
  /\ warned = {}
  /\ passes = 0
  /\ decodes = 0

\* a variant of TooSmall that asks for one chunk header only
TooSmall_Header(size) == size < HeaderSize

\* if( fileSize < 16)
TooSmall(size) == size < MinFileSize

\* Dot3DSImporter::InternReadFile up to the call of ParseMainChunk; opens:
\* whether pIOHandler->Open succeeds, file: the contents of the file
InternReadFile ==
  /\ \/ status = "idle"
     \/ status \in {"done", "error"} /\ decodes = 1 /\ mBuffer \in AgainFiles
  /\ decodes' = decodes + 1
  /\ \E opens \in (IF decodes = 0 THEN BOOLEAN ELSE {TRUE}),
        file \in (IF decodes = 0 THEN InputFiles ELSE AgainFiles) :
       IF ~opens
         THEN /\ status' = "error"
              /\ errMsg' = "Failed to open 3DS file"
              /\ UNCHANGED << mBuffer, fileSize, junk, debugBuild, keyframeAnimation, narrow, mCurrent, stack, mScene,
                              mClrAmbient, node, mCurrentNode, mRootNode, mLastNodeIndex,
                              mMasterScale, mBackgroundImage, bHasBG, pScene, phases, rd,
                              iter, warned, passes >>
       ELSE IF TooSmall(Len(file))
         THEN /\ status' = "error"
              /\ errMsg' = "3DS File is too small."
              /\ fileSize' = Len(file)
              /\ UNCHANGED << mBuffer, junk, debugBuild, keyframeAnimation, narrow, mCurrent, stack, mScene,
                              mClrAmbient, node, mCurrentNode, mRootNode, mLastNodeIndex,
                              mMasterScale, mBackgroundImage, bHasBG, pScene, phases, rd,
                              iter, warned, passes >>
       ELSE /\ mScene' = NewScene
            /\ mBuffer' = file
            /\ fileSize' = Len(file)
            /\ mCurrent' = 0
            /\ mLastNodeIndex' = -1
            /\ node' = << [NewNode EXCEPT !.mHierarchyPos = -1, !.mHierarchyIndex = -1,
                                          !.mParent = 0] >>
            /\ mCurrentNode' = 1
            /\ mRootNode' = 1
            /\ mMasterScale' = FBits(FloatOne)
            /\ mBackgroundImage' = << >>
            /\ bHasBG' = FALSE
            /\ stack' = << Frame("ParseMainChunk", Len(file), "") >>
            /\ status' = "parsing"
            \* what belongs to the call: no exception yet, the caller's empty
            \* aiScene, nothing read, no pass made
            /\ errMsg' = ""
            /\ pScene' = "empty"
            /\ phases' = << >>
            /\ rd' = {}
            /\ iter' = NoIter
            /\ warned' = {}
            /\ passes' = 0
            /\ UNCHANGED << junk, debugBuild, keyframeAnimation, narrow, mClrAmbient >>

\* Dot3DSImporter::ApplyMasterScale: mMasterScale afterwards
ApplyMasterScale(scale) ==
  IF IsZeroFloat(scale) THEN FBits(FloatOne) ELSE FApply("1/x", scale)

\* Dot3DSImporter::InternReadFile after ParseMainChunk has returned
PostProcess ==
  /\ status = "parsed"
  /\ phases' = << "CheckIndices", "MakeUnique", "ComputeNormalsWithSmoothingsGroups",
                 "ApplyScaleNOffset", "ReplaceDefaultMaterial", "ConvertScene",
                 "GenerateNodeGraph", "ApplyMasterScale" >>
  /\ pScene' = "converted"
  /\ mMasterScale' = ApplyMasterScale(mMasterScale)
  /\ status' = "done"
  /\ UNCHANGED << mBuffer, fileSize, junk, debugBuild, keyframeAnimation, narrow, errMsg, mCurrent, stack, mScene,
                  mClrAmbient, node, mCurrentNode, mRootNode, mLastNodeIndex,
                  mBackgroundImage, bHasBG, rd, iter, warned, passes, decodes >>

Next ==
  \/ InternReadFile
  \/ ParseMainChunk
  \/ ParseEditorChunk
  \/ ParseObjectChunk
  \/ ParseChunk
  \/ ParseKeyframeChunk
  \/ ParseHierarchyChunk
  \/ ParseMeshChunk
  \/ ParseFaceChunk
  \/ ParseMaterialChunk
  \/ ParseTextureChunk
  \/ PostProcess

Spec == Init /\ [][Next]_vars

\* ================================================================ properties
\* a pass through a container function that found a chunk header and went
\* through the switch without an exception and without undefined behaviour
CleanPass ==
  /\ iter.fn # ""
  /\ ~iter.null
  /\ ~iter.thrown
  /\ ~iter.crashed
  /\ ~iter.hung
  /\ ~iter.ub

\* C1: every iteration of a container loop strictly reduces the remaining
\* budget of its container, whatever size the child declares: a pass that
\* came to END_CHUNK leaves less budget than it found.
C1_BudgetDecreases ==
  (CleanPass /\ iter.entered = "") => iter.after < iter.before

\* C2: every byte the decoder reads lies at an offset in [0, bufferSize).
\* (Stated for the passes that found, inside the buffer, a chunk header that
\* declares less than 2^31 bytes; the absent header is the subject of C6, the
\* size that leads past the buffer the subject of C4.)
C2_ReadsInsideBuffer ==
  (iter.fn # "" /\ ~iter.null /\ InBuffer(iter.at) /\ iter.Size >= 0) =>
    rd \subseteq 0 .. (fileSize - 1)

\* C3: no child header and no child payload byte is read at or beyond the
\* declared end of the container whose children the loop walks, and the loop
\* exits with the cursor at or before that end.  (Stated for the bytes of the
\* buffer, a read beyond the buffer being the subject of C2, and for the
\* passes that begin with a budget of 0 or more.)
C3_ReadsInsideContainer ==
  ( /\ iter.fn # ""
    /\ ~iter.null
    /\ ~iter.thrown
    /\ ~iter.crashed
    /\ ~iter.hung
    /\ iter.before >= 0 ) =>
    /\ \A o \in rd : InBuffer(o) => o < iter.cend
    /\ iter.returned => mCurrent <= iter.cend

\* C4: a chunk header read at offset o whose declared size s gives
\* o + s > bufferSize ends the decode with a hard error: the pass throws,
\* no post-processing phase runs and the caller's scene stays empty.
C4_OversizeIsHardError ==
  \A x \in iter.hdrs :
    (InBuffer(x.at) /\ (x.Size < 0 \/ x.Size > fileSize - x.at)) =>
      /\ iter.thrown
      /\ status = "error"
      /\ phases = << >>
      /\ pScene = "empty"

\* C5: a file of fewer than 16 bytes is rejected with a hard error before a
\* Scene object exists, before the buffer is filled and before any chunk
\* header is read.
C5_SmallFileRejected ==
  (status # "idle" /\ errMsg # "Failed to open 3DS file" /\ fileSize < 16) =>
    /\ status = "error"
    /\ errMsg = "3DS File is too small."
    /\ ~mScene.created
    /\ mBuffer = << >>
    /\ rd = {}
    /\ iter = NoIter
    /\ passes = 0
    /\ node = << >>
    /\ phases = << >>
    /\ pScene = "empty"

\* a file of 1 .. 15 bytes has been rejected
C5_Witness ==
  /\ status = "error"
  /\ errMsg = "3DS File is too small."
  /\ fileSize \in 1 .. 15

\* C6: when a container loop expects a child header and fewer than 6 bytes
\* remain before the buffer end, decode ends with a hard error: the fields of
\* the absent header are not used.
C6_AbsentHeaderIsHardError ==
  (iter.fn # "" /\ iter.null) => (iter.thrown /\ status = "error")

\* the chunk of the last pass carries a string and nothing else
StringChunk ==
  \/ iter.fn = "ParseObjectChunk" /\ iter.Flag \in {CHUNK_OBJBLOCK, CHUNK_BIT_MAP}
  \/ iter.fn = "ParseMaterialChunk" /\ iter.Flag = CHUNK_MAT_MATNAME
  \/ iter.fn = "ParseTextureChunk" /\ iter.Flag = CHUNK_MAPFILE

\* C7: decoding the string of a string-bearing chunk reads no byte at or
\* beyond the chunk's declared end, and the string is no longer than the
\* payload, for every payload length including 0.
C7_StringInsideChunk ==
  (StringChunk /\ CleanPass /\ iter.Size >= HeaderSize) =>
    /\ \A o \in rd : o < iter.pcCurNext
    /\ iter.Flag = CHUNK_BIT_MAP => Len(mBackgroundImage) <= iter.Size - HeaderSize
    /\ iter.Flag = CHUNK_MAT_MATNAME =>
         Len(Back(mScene.mMaterials).mName) <= iter.Size - HeaderSize
    /\ iter.Flag = CHUNK_OBJBLOCK =>
         Len(Back(mScene.mMeshes).mName) <= iter.Size - HeaderSize

\* the node on the path from node c to the root, nearest to c, whose level is
\* level (0: there is none)
RECURSIVE NearestAtLevel(_, _, _)
NearestAtLevel(nodes, c, level) ==
  IF c = 0 THEN 0
  ELSE IF nodes[c].mHierarchyPos = level THEN c
  ELSE NearestAtLevel(nodes, nodes[c].mParent, level)

\* the parent the three rules give a new node of the given level
RuleParent(nodes, current, lastLevel, level) ==
  IF nodes[current].mHierarchyPos = level
    THEN IF nodes[current].mParent # 0 THEN nodes[current].mParent ELSE current
  ELSE IF level >= lastLevel
    THEN current
  ELSE LET hit == NearestAtLevel(nodes, current, level)
       IN IF hit = 0 THEN mRootNode
          ELSE IF nodes[hit].mParent # 0 THEN nodes[hit].mParent ELSE hit

\* the last level the three rules leave
RuleLastLevel(nodes, current, lastLevel, level) ==
  IF nodes[current].mHierarchyPos # level /\ level >= lastLevel
    THEN level
    ELSE lastLevel + 1

\* the records (A,0), (B,1), (C,1), (D,0)
ExampleFile == HierarchyFile(<< 65535, 0, 0, 65535 >>)

\* C8: each hierarchy record attaches its new node n as the three rules say
\* (same level as current: child of current's parent; else level >= lastLevel:
\* child of current; else sibling of the nearest node of that level on the path
\* to the root, or child of the root), sets lastLevel as they say and makes n
\* the current node; the records (A,0), (B,1), (C,1), (D,0) give the root the
\* children A, D and A the children B, C.
C8_HierarchyRules ==
  [][ (mCurrentNode # 0 /\ Len(node') = Len(node) + 1) =>
        LET n == Len(node')
            level == node'[n].mHierarchyPos
            par == RuleParent(node, mCurrentNode, mLastNodeIndex, level)
        IN /\ node'[n].mParent = par
           /\ \A k \in 1 .. Len(node) : k # par => node'[k] = node[k]
           /\ node'[par] = [node[par] EXCEPT !.mChildren = Append(@, n)]
           /\ node'[n].mChildren = << >>
           /\ mLastNodeIndex' = RuleLastLevel(node, mCurrentNode, mLastNodeIndex, level)
           /\ mCurrentNode' = n
           /\ (mBuffer = ExampleFile /\ n = 5) =>
                /\ node'[1].mChildren = << 2, 5 >>
                /\ node'[2].mChildren = << 3, 4 >>
                /\ node'[3].mChildren = << >>
                /\ node'[4].mChildren = << >>
    ]_vars

\* the records of the example have been decoded, its last one by rule 3
C8_Witness ==
  /\ mBuffer = ExampleFile
  /\ Len(node) = 5
  /\ node[5].mParent = 1
  /\ node[4].mParent = 2
  /\ mLastNodeIndex = 3

\* the material name of the face material list of the last pass equals, letter
\* case ignored, the name of no material decoded so far
UnresolvedName ==
  \A k \in 1 .. Len(mScene.mMaterials) :
    ~ASSIMP_stricmp(Mem, iter.at + HeaderSize, mScene.mMaterials[k].mName).eq

\* C9: a face material list whose name matches no material decoded so far
\* gives the sentinel to every face it lists, and the decode goes on to the
\* next chunk: no error, no crash.
C9_UnresolvedNameContinues ==
  ( /\ iter.fn = "ParseFaceChunk"
    /\ iter.Flag = CHUNK_FACEMAT
    /\ ~iter.null
    /\ ~iter.thrown
    /\ InBuffer(iter.at)
    /\ iter.Size >= HeaderSize
    /\ UnresolvedName ) =>
      /\ ~iter.crashed
      /\ ~iter.hung
      /\ status \in {"parsing", "parsed", "done"}
      /\ \A i \in iter.listed :
           i < Len(Back(mScene.mMeshes).mFaces) =>
             Back(mScene.mMeshes).mFaceMaterials[i + 1] = DefaultMaterialIndex
      /\ DefaultMaterialIndex \notin 0 .. Len(mScene.mMaterials)

\* C10 as stated: in every mesh the face material array is as long as the face
\* list, and every face no face material list has named holds the sentinel.
C10_UnnamedFacesHoldSentinel ==
  \A k \in 1 .. Len(mScene.mMeshes) :
    LET mesh == mScene.mMeshes[k]
    IN /\ Len(mesh.mFaceMaterials) = Len(mesh.mFaces)
       /\ \A i \in 0 .. Len(mesh.mFaces) - 1 :
            i \notin mesh.listed => mesh.mFaceMaterials[i + 1] = DefaultMaterialIndex

\* C10, amended: in every mesh the face material array is as long as the face
\* list, and every face no face material list has named holds the sentinel,
\* unless it was the last face of the mesh when a face material list held an
\* index past the end of the face list.
C10_UnnamedFacesHoldSentinelUnlessClamped ==
  \A k \in 1 .. Len(mScene.mMeshes) :
    LET mesh == mScene.mMeshes[k]
    IN /\ Len(mesh.mFaceMaterials) = Len(mesh.mFaces)
       /\ \A i \in 0 .. Len(mesh.mFaces) - 1 :
            (i \notin mesh.listed /\ i \notin mesh.clamped) =>
              mesh.mFaceMaterials[i + 1] = DefaultMaterialIndex

\* a mesh with two face lists: the face of the first took the material of an
\* index past the end, the face of the second holds the sentinel
C10_Witness ==
  \E k \in 1 .. Len(mScene.mMeshes) :
    LET mesh == mScene.mMeshes[k]
    IN /\ Len(mesh.mFaces) = 2
       /\ mesh.clamped = {0}
       /\ mesh.listed = {}
       /\ mesh.mFaceMaterials = << 0, DefaultMaterialIndex >>

\* ----------------------------------------------------------------- C11
\* the pass handled a chunk that holds a colour or a percentage, and the chunk
\* lies within the buffer with a size of at least its header
LookupPass ==
  /\ iter.fn # ""
  /\ ~iter.null
  /\ \/ iter.fn = "ParseMaterialChunk" /\ iter.Flag \in (ColorChunks \cup PercentChunks)
     \/ iter.fn = "ParseObjectChunk" /\ iter.Flag = CHUNK_AMBCOLOR
  /\ InBuffer(iter.at)
  /\ iter.Size >= HeaderSize
  /\ iter.Size <= fileSize - iter.at

\* the encodings the chunk with tag flag accepts in its payload
AcceptedTags(flag) ==
  IF flag \in PercentChunks THEN {CHUNK_PERCENTF, CHUNK_PERCENTW}
  ELSE IF flag = CHUNK_AMBCOLOR
    THEN {CHUNK_RGBF, CHUNK_LINRGBF, CHUNK_RGBB, CHUNK_LINRGBB, CHUNK_PERCENTF, CHUNK_PERCENTW}
    ELSE {CHUNK_RGBF, CHUNK_LINRGBF, CHUNK_RGBB, CHUNK_LINRGBB}

\* the payload bytes the encoding sub takes in the chunk with tag flag
NeededBytes(flag, sub) ==
  IF sub \in {CHUNK_RGBF, CHUNK_LINRGBF} THEN 12
  ELSE IF sub \in {CHUNK_RGBB, CHUNK_LINRGBB} THEN 3
  ELSE IF sub = CHUNK_PERCENTF THEN 4
  ELSE IF flag \in PercentChunks THEN 2 ELSE 1

\* the chunk of the pass has no accepted sub-chunk at the start of its
\* payload: no room for a header, another tag, or a payload too short
NoAcceptedSubChunk ==
  LET sub == iter.at + HeaderSize
  IN \/ iter.Size - HeaderSize < HeaderSize
     \/ U16(sub) \notin AcceptedTags(iter.Flag)
     \/ Word32(sub + 2) - HeaderSize < NeededBytes(iter.Flag, U16(sub))

\* the value the property of the chunk with tag flag has now
PropertyValue(flag) ==
  LET mat == Back(mScene.mMaterials)
  IN CASE flag = CHUNK_AMBCOLOR -> mClrAmbient
       [] flag = CHUNK_MAT_DIFFUSE -> mat.mDiffuse
       [] flag = CHUNK_MAT_SPECULAR -> mat.mSpecular
       [] flag = CHUNK_MAT_AMBIENT -> mat.mAmbient
       [] flag = CHUNK_MAT_SELF_ILLUM -> mat.mEmissive
       [] flag = CHUNK_MAT_TRANSPARENCY -> mat.mTransparency
       [] flag = CHUNK_MAT_SHININESS -> mat.mSpecularExponent
       [] flag = CHUNK_MAT_SHININESS_PERCENT -> mat.mShininessStrength
       [] flag = CHUNK_MAT_SELF_ILPCT -> mat.sTexEmissive.mTextureBlend

\* the fallback of the property of the chunk with tag flag
FallbackValue(flag) ==
  LET white == aiColor3D(FBits(FloatOne), FBits(FloatOne), FBits(FloatOne))
      black == aiColor3D(FBits(FloatZero), FBits(FloatZero), FBits(FloatZero))
  IN CASE flag \in {CHUNK_MAT_DIFFUSE, CHUNK_MAT_SPECULAR, CHUNK_MAT_AMBIENT} -> white
       [] flag \in {CHUNK_AMBCOLOR, CHUNK_MAT_SELF_ILLUM} -> black
       [] flag = CHUNK_MAT_TRANSPARENCY -> FBits(FloatOne)
       [] OTHER -> FBits(FloatZero)

\* C11: a chunk holding a colour or a percentage whose payload has no
\* accepted sub-chunk (empty payload, wrong tag, payload too short), wherever
\* it lies in the buffer, leaves its property at the fallback, and the decode
\* goes on without an exception, a crash or an endless recursion.
C11_NoSubChunkGivesFallback ==
  (LookupPass /\ NoAcceptedSubChunk) =>
    /\ ~iter.thrown
    /\ ~iter.crashed
    /\ ~iter.hung
    /\ PropertyValue(iter.Flag) = FallbackValue(iter.Flag)

\* ----------------------------------------------------------------- C12
\* the pass handled a track chunk with tag flag that lies within the buffer
\* and holds all the keys it declares, without an exception or a crash
TrackPass(flag) ==
  /\ CleanPass
  /\ iter.fn = "ParseHierarchyChunk"
  /\ iter.Flag = flag
  /\ InBuffer(iter.at)
  /\ iter.Size <= fileSize - iter.at
  /\ iter.Size >= HeaderSize + 14 + U16(iter.at + HeaderSize + 10) *
                    (IF flag = CHUNK_TRACKROTATE THEN 22 ELSE 18)

\* the number of keys the track chunk of the pass declares
DeclaredKeys == U16(iter.at + HeaderSize + 10)

\* the three floats of key i of the scale track chunk of the pass are 0.0
ZeroScaleKey(i) ==
  \A j \in 0 .. 2 : IsZeroFloat(F32(iter.at + HeaderSize + 14 + 18 * (i - 1) + 6 + 4 * j))

\* C12: after a scale track chunk with at least one key, all of whose key
\* values are (0,0,0), the scaling track of the current node is empty.
C12_ZeroScaleTrackDiscarded ==
  (/\ TrackPass(CHUNK_TRACKSCALE)
   /\ DeclaredKeys >= 1
   /\ \A i \in 1 .. DeclaredKeys : ZeroScaleKey(i))
    => node[mCurrentNode].aScalingKeys = << >>

\* ----------------------------------------------------------------- C14
Tracks == {"aPositionKeys", "aRotationKeys", "aScalingKeys"}

\* the position in the arrivals of node n where track field was last cleared,
\* 0 if it never was
LastCleared(n, field) ==
  LET a == node[n].arrived
      at == {i \in 1 .. Len(a) : a[i].track = "clear " \o field}
  IN IF at = {} THEN 0 ELSE CHOOSE i \in at : \A j \in at : j <= i

\* the keys that arrived for track field of node n after position from, each
\* of them the first of its frame number among these
FirstArrivals(n, field, from) ==
  LET a == node[n].arrived
      firsts == {i \in from + 1 .. Len(a) :
                   /\ a[i].track = field
                   /\ \A j \in from + 1 .. i - 1 :
                        a[j].track = field => a[j].key.mTime # a[i].key.mTime}
  IN {a[i].key : i \in firsts}

\* no two keys of the sequence have the same frame number
DistinctFrames(keys) ==
  \A i, j \in 1 .. Len(keys) : keys[i].mTime = keys[j].mTime => i = j

\* the elements of a sequence
Range1(seq) == {seq[i] : i \in 1 .. Len(seq)}

\* C14: no track of a node holds two keys with the same frame number, and
\* every key a track holds is the first key that arrived for the track with
\* its frame number.
C14_FirstKeyRetained ==
  \A n \in 1 .. Len(node), field \in Tracks :
    /\ DistinctFrames(node[n][field])
    /\ Range1(node[n][field]) \subseteq FirstArrivals(n, field, 0)

\* C14, amended: no track of a node holds two keys with the same frame number,
\* and every key a track holds is the first key that arrived for the track
\* with its frame number since the track was last emptied.
C14_FirstKeySinceEmptied ==
  \A n \in 1 .. Len(node), field \in Tracks :
    /\ DistinctFrames(node[n][field])
    /\ Range1(node[n][field]) \subseteq FirstArrivals(n, field, LastCleared(n, field))

\* a track that holds one key though two keys of the same frame number and
\* different values arrived for it, in two track chunks
C14_Witness ==
  /\ iter.fn = "ParseHierarchyChunk"
  /\ iter.Flag = CHUNK_TRACKPOS
  /\ DeclaredKeys = 1
  /\ \E n \in 1 .. Len(node) :
       LET a == node[n].arrived
       IN /\ Len(a) = 2
          /\ a[1].track = "aPositionKeys"
          /\ a[2].track = "aPositionKeys"
          /\ a[1].key.mTime = a[2].key.mTime
          /\ a[1].key.mValue # a[2].key.mValue
          /\ node[n].aPositionKeys = << a[1].key >>

\* ----------------------------------------------------------------- C13
\* the decode of mesh k has ended: the decoder runs or has finished, and no
\* call of ParseMeshChunk for the mesh is open
MeshDecoded(k) ==
  /\ status \in {"parsing", "parsed", "done"}
  /\ \/ k < Len(mScene.mMeshes)
     \/ \A i \in 1 .. Len(stack) : stack[i].fn \notin {"ParseMeshChunk", "ParseFaceChunk"}

\* the determinant of the local transform mat, whose entries are small whole
\* numbers (0 when they are not)
SmallDeterminant(mat) ==
  IF \A i \in 1 .. 9 : SmallFloat(mat[i]) # << >>
    THEN LET v(i) == SmallFloat(mat[i])[1]
         IN v(1) * (v(5) * v(9) - v(8) * v(6)) - v(4) * (v(2) * v(9) - v(8) * v(3))
              + v(7) * (v(2) * v(6) - v(5) * v(3))
    ELSE 0

\* C13: when the decode of a mesh has ended and its local transform has a
\* negative determinant, every vertex of the mesh has been normalized exactly
\* once, whatever the order of vertex lists and transforms; when the
\* determinant is positive no vertex has been changed since it was read.
C13_NormalizedOnce ==
  \A k \in 1 .. Len(mScene.mMeshes) :
    LET mesh == mScene.mMeshes[k]
    IN MeshDecoded(k) =>
         /\ SmallDeterminant(mesh.mMat) < 0 =>
              \A i \in 1 .. Len(mesh.mPositions) : Len(mesh.mPositions[i].normalizedBy) = 1
         /\ SmallDeterminant(mesh.mMat) > 0 =>
              \A i \in 1 .. Len(mesh.mPositions) : mesh.mPositions[i].normalizedBy = << >>

\* ----------------------------------------------------------------- C15
\* the pass handled, without a nested container function, a child that lies
\* within the buffer, and the container function went on to its next pass
HandlerReturned ==
  /\ CleanPass
  /\ iter.entered = ""
  /\ ~iter.returned
  /\ InBuffer(iter.at)
  /\ iter.Size >= HeaderSize
  /\ iter.Size <= fileSize - iter.at

\* C15: after the handler of a child has returned the cursor stands at the
\* start of the child plus its declared size, whether the handler consumed
\* less than the payload, the payload or more, and the log of the pass holds
\* the overflow warning exactly when the handler had moved the cursor past
\* the end of the child.
C15_ClampAndWarn ==
  HandlerReturned =>
    /\ mCurrent = iter.at + iter.Size
    /\ ("chunk overflow" \in warned) <=> (iter.handled > iter.pcCurNext)

\* ----------------------------------------------------------------- C16
\* the tags container function fn has a case for
Recognized(fn) ==
  CASE fn = "ParseMainChunk" -> {CHUNK_MAIN}
    [] fn = "ParseEditorChunk" -> {CHUNK_OBJMESH, CHUNK_KEYFRAMER, CHUNK_VERSION}
    [] fn = "ParseObjectChunk" ->
         {CHUNK_OBJBLOCK, CHUNK_MAT_MATERIAL, CHUNK_AMBCOLOR, CHUNK_BIT_MAP,
          CHUNK_BIT_MAP_EXISTS, CHUNK_MASTER_SCALE, CHUNK_KEYFRAMER}
    [] fn = "ParseChunk" -> {CHUNK_TRIMESH}
    [] fn = "ParseKeyframeChunk" -> {CHUNK_TRACKINFO}
    [] fn = "ParseHierarchyChunk" ->
         {CHUNK_TRACKOBJNAME, CHUNK_TRACKPIVOT} \cup
           (IF keyframeAnimation
              THEN {CHUNK_TRACKPOS, CHUNK_TRACKROTATE, CHUNK_TRACKSCALE} ELSE {})
    [] fn = "ParseFaceChunk" -> {CHUNK_SMOOLIST, CHUNK_FACEMAT}
    [] fn = "ParseMeshChunk" -> {CHUNK_VERTLIST, CHUNK_TRMATRIX, CHUNK_MAPLIST, CHUNK_FACELIST}
    [] fn = "ParseMaterialChunk" ->
         {CHUNK_MAT_MATNAME, CHUNK_MAT_SHADING, CHUNK_MAT_TWO_SIDE} \cup ColorChunks
           \cup PercentChunks
           \cup {CHUNK_MAT_TEXTURE, CHUNK_MAT_BUMPMAP, CHUNK_MAT_OPACMAP,
                 CHUNK_MAT_MAT_SHINMAP, CHUNK_MAT_SPECMAP, CHUNK_MAT_SELFIMAP}
    [] fn = "ParseTextureChunk" ->
         {CHUNK_MAPFILE, CHUNK_PERCENTF, CHUNK_PERCENTW, CHUNK_MAT_MAP_USCALE,
          CHUNK_MAT_MAP_VSCALE, CHUNK_MAT_MAP_UOFFSET, CHUNK_MAT_MAP_VOFFSET,
          CHUNK_MAT_MAP_ANG, CHUNK_MAT_MAP_TILING}
    [] OTHER -> {}

\* C16: a pass over a child whose tag the container function has no case for
\* leaves meshes, materials, textures, nodes, current node, last level, master
\* scale, ambient colour and background as they were, reduces the budget by
\* the declared size and, when the function goes on to its next pass, leaves
\* the cursor at the start of the child plus its declared size.
C16_UnknownTagOnlySkips ==
  [][ (/\ passes' = passes + 1
       /\ iter'.fn # ""
       /\ ~iter'.null /\ ~iter'.thrown /\ ~iter'.crashed /\ ~iter'.hung /\ ~iter'.ub
       /\ iter'.Flag \notin Recognized(iter'.fn))
      =>
      /\ UNCHANGED << mScene, mClrAmbient, node, mCurrentNode, mLastNodeIndex, mMasterScale,
                      mBackgroundImage, bHasBG >>
      /\ iter'.after = Sub32(iter'.before, iter'.Size)
      /\ ~iter'.returned => mCurrent' = iter'.at + iter'.Size ]_vars

\* ----------------------------------------------------------------- C17
\* A step in which ReadChunk is called with least .. HeaderSize - 1 bytes left
\* in the buffer.  Called by BEGIN_CHUNK it gives the null pointer and throws
\* nothing; called by the lookup of a colour or percentage chunk it leaves the
\* cursor behind the header of that chunk, nothing is thrown and nothing
\* crashes, and the property of the chunk has its fallback, as it has when the
\* lookup returned the not-a-number sentinel.
ShortReads(least) == least .. HeaderSize - 1

NoChunkStep(least) ==
  passes' = passes + 1 =>
    /\ (status = "parsing" /\ fileSize - mCurrent \in ShortReads(least)) =>
         (iter'.null /\ ~iter'.thrown)
    /\ (LookupPass /\ fileSize - (iter.at + HeaderSize) \in ShortReads(least))' =>
         /\ ~iter'.thrown
         /\ ~iter'.crashed
         /\ iter'.handled = iter'.at + HeaderSize
         /\ (PropertyValue(iter.Flag) = FallbackValue(iter.Flag))'

C18_LookupStaysInside ==
  (LookupPass /\ iter.Flag \in ColorChunks) =>
    /\ \A hd \in iter.hdrs :
         hd.at # iter.at =>
           /\ hd.at >= iter.at + HeaderSize
           /\ hd.at + HeaderSize <= iter.at + iter.Size
    /\ iter.handled <= iter.at + iter.Size

\* ----------------------------------------------------------------- C19
\* the chunk of the pass begins with a percentage sub-chunk, float or word,
\* that lies inside its payload and holds its value
PercentageFirst ==
  LET sub == iter.at + HeaderSize
  IN /\ iter.Size >= 2 * HeaderSize
     /\ U16(sub) \in {CHUNK_PERCENTF, CHUNK_PERCENTW}
     /\ Word32(sub + 2) >= HeaderSize + (IF U16(sub) = CHUNK_PERCENTF THEN 4 ELSE 1)
     /\ Word32(sub + 2) <= iter.Size - HeaderSize

\* where the sub-chunk after the first one begins
SecondSubChunk == iter.at + HeaderSize + Word32(iter.at + HeaderSize + 2)

\* the second sub-chunk is a byte colour that lies inside the payload
ByteColorSecond ==
  /\ SecondSubChunk + HeaderSize + 3 <= iter.at + iter.Size
  /\ U16(SecondSubChunk) = CHUNK_RGBB
  /\ Word32(SecondSubChunk + 2) = HeaderSize + 3

\* C19: in a material colour chunk (diffuse, specular, ambient, emissive) a
\* percentage sub-chunk does not give the colour and the lookup goes on: when
\* a byte colour follows it inside the chunk, the property gets that colour.
\* In the scene ambient colour chunk a percentage sub-chunk gives the colour,
\* the same value in all three channels.
C19_PercentageAsColor ==
  (LookupPass /\ iter.Flag \in ColorChunks /\ PercentageFirst) =>
    LET p == iter.at + 2 * HeaderSize
        q == SecondSubChunk + HeaderSize
        c == PropertyValue(iter.Flag)
    IN IF iter.Flag = CHUNK_AMBCOLOR
         THEN /\ ~iter.thrown
              /\ c.r = c.g
              /\ c.g = c.b
              /\ ~is_qnan(F32(p)) => c.r \in {F32(p), FRatio("div255", Peek(p))}
         ELSE ByteColorSecond =>
                /\ ~iter.thrown
                /\ c = aiColor3D(FRatio("div255", Peek(q)), FRatio("div255", Peek(q + 1)),
                                 FRatio("div255", Peek(q + 2)))

\* ----------------------------------------------------------------- C20
\* the pass handled a face material list that lies within the buffer, read
\* nothing outside the buffer, and named a face index that is not below the
\* number of faces of the mesh
IndexPastFaces ==
  /\ iter.fn = "ParseFaceChunk"
  /\ iter.Flag = CHUNK_FACEMAT
  /\ ~iter.null
  /\ ~iter.thrown
  /\ InBuffer(iter.at)
  /\ iter.Size >= HeaderSize
  /\ iter.Size <= fileSize - iter.at
  /\ \A o \in rd : InBuffer(o)
  /\ \E j \in iter.listed : j >= Len(Back(mScene.mMeshes).mFaces)

\* C20: a face material list that names a face index not below the number of
\* faces, whatever that number is (0 too), writes nothing outside the face
\* material array and the decode goes on; the material index is in the slot
\* of the last face.
C20_PastIndexGoesToLastFace ==
  IndexPastFaces =>
    /\ ~iter.ub
    /\ ~iter.crashed
    /\ status \in {"parsing", "parsed", "done"}
    /\ LET mesh == Back(mScene.mMeshes)
       IN /\ Len(mesh.mFaceMaterials) = Len(mesh.mFaces)
          /\ Len(mesh.mFaces) > 0
          /\ Len(mesh.mFaces) - 1 \in mesh.clamped

\* ----------------------------------------------------------------- C21
\* the length of the name at offset o of a chunk that ends at offset end: the
\* bytes before the first zero byte, and none from end on
RECURSIVE NameLength(_, _, _)
NameLength(o, end, n) ==
  IF o + n >= end \/ Peek(o + n) = 0 THEN n ELSE NameLength(o, end, n + 1)

\* the name of the face material list of the last pass
ListName ==
  LET o == iter.at + HeaderSize
  IN [i \in 1 .. NameLength(o, iter.at + iter.Size, 0) |-> Peek(o + i - 1)]

\* the two names are equal, the case of letters ignored
SameName(a, b) ==
  LET fold(c) == IF c >= 65 /\ c <= 90 THEN c + 32 ELSE c
  IN /\ Len(a) = Len(b)
     /\ \A i \in 1 .. Len(a) : fold(a[i]) = fold(b[i])

\* the index (from 0) of the first material decoded so far that has the name,
\* the sentinel if there is none
FirstMaterialNamed(name) ==
  LET mats == mScene.mMaterials
      found == {k \in 1 .. Len(mats) : SameName(mats[k].mName, name)}
  IN IF found = {} THEN DefaultMaterialIndex
     ELSE (CHOOSE k \in found : \A j \in found : k <= j) - 1

\* the pass handled a face material list that lies within the buffer, read
\* nothing outside the buffer and named a face of the mesh
FacesNamed ==
  /\ CleanPass
  /\ iter.fn = "ParseFaceChunk"
  /\ iter.Flag = CHUNK_FACEMAT
  /\ InBuffer(iter.at)
  /\ iter.Size >= HeaderSize
  /\ iter.Size <= fileSize - iter.at
  /\ \A o \in rd : InBuffer(o)
  /\ \E j \in iter.listed : j < Len(Back(mScene.mMeshes).mFaces)

\* C21: the faces a face material list names get the index of the first
\* material, among those decoded before the list, whose name equals the name
\* of the list ignoring case, and the sentinel if there is none; a material
\* that comes later in the file is not among them.
C21_FirstMaterialOfName ==
  FacesNamed =>
    \A j \in iter.listed :
      j < Len(Back(mScene.mMeshes).mFaces) =>
        Back(mScene.mMeshes).mFaceMaterials[j + 1] = FirstMaterialNamed(ListName)

\* ----------------------------------------------------------------- C22
\* the flags word of the tiling-flags chunk of the last pass
FlagsWord == Peek(iter.at + HeaderSize) + 256 * Peek(iter.at + HeaderSize + 1)

\* the wrap mode a flags word stands for
WrapMode(word) ==
  IF (word \div 2) % 2 = 1 THEN "aiTextureMapMode_Mirror"
  ELSE IF (word \div 16) % 2 = 1 /\ word % 2 = 1 THEN "aiTextureMapMode_Clamp"
  ELSE "aiTextureMapMode_Wrap"

\* the pass handled a tiling-flags chunk that lies within the buffer and
\* holds its flags word
TilingPass ==
  /\ CleanPass
  /\ iter.fn = "ParseTextureChunk"
  /\ iter.Flag = CHUNK_MAT_MAP_TILING
  /\ InBuffer(iter.at)
  /\ iter.Size >= HeaderSize + 2
  /\ iter.Size <= fileSize - iter.at

\* C22: after a tiling-flags chunk of a texture slot the wrap mode of the slot
\* is the one its flags word stands for (mirror if bit 1 is set, else clamp if
\* bits 4 and 0 are set, else repeat), whatever an earlier tiling-flags chunk of
\* the slot had selected.
C22_TilingFlagsAlone ==
  [][(status = "parsing" /\ stack # << >> /\ TilingPass') =>
       \E pcOut \in {Top.pcOut} :
         (Back(mScene.mMaterials)[pcOut].mMapMode = WrapMode(FlagsWord))']_vars

\* ----------------------------------------------------------------- C23
\* the bytes from offset o up to offset end are chunks one after the other,
\* each with a declared size of at least one header, that end exactly at end
RECURSIVE Tiles(_, _)
Tiles(o, end) ==
  \/ o = end
  \/ /\ o + HeaderSize <= end
     /\ LET size == Peek(o + 2) + 256 * Peek(o + 3)
                    + 65536 * Peek(o + 4) + 16777216 * (Peek(o + 5) % 128)
        IN /\ Peek(o + 5) < 128
           /\ size >= HeaderSize
           /\ size <= end - o
           /\ Tiles(o + size, end)

\* the pass handled a child of a container inside the buffer, without calling
\* a container function, and found the budget of the container equal to the
\* bytes up to its declared end, which this child and the chunks after it
\* fill exactly
ExactChildren ==
  /\ CleanPass
  /\ iter.entered = ""
  /\ iter.cend <= fileSize
  /\ InBuffer(iter.at)
  /\ iter.at < iter.cend
  /\ iter.before = iter.cend - iter.at
  /\ Tiles(iter.at, iter.cend)

\* the pass handled the last child of its container
LastChild == iter.at + iter.Size = iter.cend

\* C23: in a container whose children each declare at least one header and
\* together fill the payload exactly, a pass of the loop takes the declared
\* size of its child from the budget, reads no header at or behind the
\* declared end of the container, goes on with the cursor at the start of
\* the next child, and leaves the loop after the last child with budget 0.
C23_ExactChildrenHandled ==
  ExactChildren =>
    /\ iter.after = iter.before - iter.Size
    /\ \A h \in iter.hdrs : h.at < iter.cend
    /\ LastChild => (iter.returned /\ iter.after = 0)
    /\ ~LastChild => (~iter.returned /\ status = "parsing" /\ mCurrent = iter.at + iter.Size)

\* ----------------------------------------------------------------- C24
\* the level of the node record number k made (node 1 is the root)
Level(k) == node[k].mHierarchyPos

\* the levels of the records decoded so far are a pre-order depth sequence:
\* the first is 0, each of the others at least 0 and at most one more than
\* the level of the record before it
PreOrderLevels ==
  /\ Len(node) >= 2
  /\ mRootNode = 1
  /\ Level(2) = 0
  /\ \A k \in 3 .. Len(node) : Level(k) >= 0 /\ Level(k) <= Level(k - 1) + 1

\* the parent of node k in the tree the levels describe: the root for level
\* 0, else the nearest node before k whose level is one less
PreOrderParent(k) ==
  IF Level(k) = 0 THEN mRootNode
  ELSE LET before == {j \in 2 .. k - 1 : Level(j) = Level(k) - 1}
       IN CHOOSE j \in before : \A i \in before : i <= j

\* C24: after a hierarchy record, when the levels of the records so far are a pre-order depth
\* sequence, every node has as parent the nearest node before it whose level
\* is one less, and the root if its level is 0, also after records of the
\* same level or of a lower level than the one before.
C24_PreOrderParents ==
  (CleanPass /\ iter.Flag = CHUNK_TRACKOBJNAME /\ PreOrderLevels) =>
    \A k \in 2 .. Len(node) : node[k].mParent = PreOrderParent(k)

\* ----------------------------------------------------------------- C25
\* the places (node p, position i) where node k stands in a children list
PlacesOf(k) ==
  {pi \in (1 .. Len(node)) \X (1 .. Len(node)) :
     pi[2] <= Len(node[pi[1]].mChildren) /\ node[pi[1]].mChildren[pi[2]] = k}

\* at most n parent links lead from node k to the root
RECURSIVE ReachesRoot(_, _)
ReachesRoot(k, n) ==
  \/ k = mRootNode
  \/ n > 0 /\ node[k].mParent # 0 /\ ReachesRoot(node[k].mParent, n - 1)

\* the nodes are a tree with the root node as root
IsTree ==
  /\ node[mRootNode].mParent = 0
  /\ PlacesOf(mRootNode) = {}
  /\ \A k \in 1 .. Len(node) :
       /\ k # mRootNode =>
            /\ Cardinality(PlacesOf(k)) = 1
            /\ \A pi \in PlacesOf(k) : node[k].mParent = pi[1]
       /\ ReachesRoot(k, Len(node))

\* the step keeps every node and every edge there was
NodesKept ==
  /\ Len(node') >= Len(node)
  /\ \A k \in 1 .. Len(node) :
       /\ node'[k].mParent = node[k].mParent
       /\ Len(node'[k].mChildren) >= Len(node[k].mChildren)
       /\ SubSeq(node'[k].mChildren, 1, Len(node[k].mChildren)) = node[k].mChildren

\* C25: after every step of the decoder, a hierarchy record included, the
\* nodes are a tree rooted at the root node: every other node stands in
\* exactly one children list, once, and its parent is the node with that
\* list; the root has no parent; parent links lead from every node to the
\* root; and the step, unless it starts another decode, has removed no node
\* and no edge.
C25_NodesAreATree ==
  [][(mRootNode' # 0 => IsTree') /\ ((mRootNode # 0 /\ decodes' = decodes) => NodesKept)]_vars

\* four records have been decoded, the third and the fourth attached by the
\* search from the current node towards the root
C25_Witness ==
  /\ Len(node) = 5
  /\ iter.Flag = CHUNK_TRACKOBJNAME
  /\ node[1].mChildren = << 2, 4, 5 >>
  /\ node[2].mChildren = << 3 >>
  /\ mLastNodeIndex = 3

\* ----------------------------------------------------------------- C26
\* the buffer holds the tag of the scene ambient colour chunk nowhere
NoAmbientTag ==
  \A i \in 1 .. Len(mBuffer) - 1 :
    ~(mBuffer[i] = CHUNK_AMBCOLOR % 256 /\ mBuffer[i + 1] = CHUNK_AMBCOLOR \div 256)

\* the scene ambient colour of an instance that has decoded nothing
FreshAmbient == aiColor3D(FBits(FloatZero), FBits(FloatZero), FBits(FloatZero))

\* C26: what a decode gives depends on the buffer only, not on what the
\* instance has decoded before: a buffer without a scene ambient colour chunk
\* decodes to the scene ambient colour of a fresh instance, on every instance.
C26_NothingSurvives ==
  (status = "done" /\ NoAmbientTag) => mClrAmbient = FreshAmbient

====
